---- MODULE Spec2Model ----
(***************************************************************************)
(* State-machine model of the OmniData Nexus Core resilience pipeline:     *)
(* the per-provider circuit breaker (circuit_breaker.py), the QoS          *)
(* semaphore router (qos_router.py), the retry handler (retry.py), the     *)
(* file cache as seen by the loader (cache.py) and the loader's            *)
(* _fetch_with_resilience (loader.py).                                     *)
(***************************************************************************)
EXTENDS Integers, Sequences, FiniteSets, TLC

(***************************************************************************)
(* Bounds of the model and configuration values.                           *)
(***************************************************************************)
\* Number of concurrent tasks (callers of the breaker / fetches).
NumTasks == 3
\* Largest wall-clock value the model lets time.time() reach.
MaxClock == 4
\* CircuitBreakerConfig.recovery_timeout, in clock ticks.
RecoveryTimeout == 2
\* CircuitBreakerConfig.min_requests.
MinRequests == 2
\* CircuitBreakerConfig.window_size (deque maxlen).
WindowSize == 4
\* CircuitBreakerConfig.half_open_max_requests.
HalfOpenMaxRequests == 2
\* Cap on _consecutive_successes so that the state space stays finite.
MaxConsecutive == 3
\* CircuitBreakerConfig.error_threshold = 0.5 = ErrorThresholdNum / ErrorThresholdDen.
ErrorThresholdNum == 1
ErrorThresholdDen == 2
\* QoSSemaphoreRouter limit of "fmp" (config.fmp.max_concurrency).
FmpLimit == 2
\* QoSSemaphoreRouter.DEFAULT_LIMITS["fred"].
FredLimit == 1
\* How many times set_limit may replace a provider's semaphore.
MaxSetLimits == 1
\* RetryConfig.max_retries.
MaxRetries == 1
\* How many guarded scopes may be entered in one run of the router.
MaxScopes == 3
\* How many fetches may be started in one run of the loader.
MaxFetches == 2
\* How many execute calls may be made on the retry handler in one run.
MaxExecutes == 4
\* CacheManager.ttl_days * 86400, in clock ticks.
TtlTicks == 2
\* HealthMonitor(window_size=...): the maxlen of each provider's deque.
HealthWindowSize == 10
\* How many requests may be recorded on one provider of the monitor in one run.
MaxRecords == 11
\* How many requests the threads of one run may record between two resets.
MaxThreadRecords == 3
\* HealthMonitor.MIN_REQUESTS_FOR_STATUS.
MinRequestsForStatus == 10
\* HealthMonitor.ERROR_RATE_DEGRADED = 0.1 = ErrorRateDegradedNum / ErrorRateDegradedDen.
ErrorRateDegradedNum == 1
ErrorRateDegradedDen == 10
\* HealthMonitor.ERROR_RATE_UNHEALTHY = 0.2 = ErrorRateUnhealthyNum / ErrorRateUnhealthyDen.
ErrorRateUnhealthyNum == 1
ErrorRateUnhealthyDen == 5

Providers == {"fmp", "fred"}
\* The provider the model drives through every operation, and a second one
\* that sees only some of them.
Primary == "fmp"
Secondary == "fred"
Tasks == 1..NumTasks

\* CircuitState
CLOSED == "closed"
OPEN == "open"
HALF_OPEN == "half_open"

\* Optional[float] None for _last_failure_time; time.time() is always >= 1 here,
\* so 0 is exactly the falsy value tested by "if self._last_failure_time:".
NoTime == 0

VARIABLES
    now,        \* time.time()
    breakers,   \* CircuitBreakerManager._breakers (created = FALSE: not yet in the dict)
    tasks,      \* per task: position in its coroutine and its locals
    lastOp,     \* the breaker operation performed by the last step (NoOp if none)
    mode,       \* DataLoader._operating_mode
    cache,      \* CacheManager: per provider, the file stored under the request's key
    limits,     \* QoSSemaphoreRouter._limits
    sems,       \* per provider, the value of every asyncio.Semaphore created for it;
                \* the last one is QoSSemaphoreRouter._semaphores[provider]
    qstats,     \* QoSSemaphoreRouter._stats
    lstats,     \* DataLoader._stats
    health,     \* HealthMonitor._total_counters
    monitor,    \* a HealthMonitor used directly: _history, _total_counters, _lock
    rstats,     \* a RetryHandler used directly: _stats
    tempfiles,  \* the temp file of each task's running cache.set
    lastResp    \* what the fetch or scope that ended in the last step gave its caller

loaderVars == <<mode, cache, tempfiles, limits, sems, qstats, lstats, health, monitor, rstats>>
vars == <<now, breakers, tasks, lastOp, mode, cache, tempfiles, limits, sems, qstats, lstats,
         health, monitor, rstats, lastResp>>

(***************************************************************************)
(* CircuitBreaker                                                          *)
(***************************************************************************)
\* A provider that is not yet a key of CircuitBreakerManager._breakers.
NoBreaker ==
    [created |-> FALSE, state |-> CLOSED, requests |-> <<>>,
     last_failure_time |-> NoTime,
     consecutive_successes |-> 0, half_open_requests |-> 0,
     recovered |-> FALSE]

\* CircuitBreaker.__init__ at time t.  recovered is a history field: the breaker
\* closed out of Half-Open and no failure has been recorded since.
NewBreaker(t) ==
    [created |-> TRUE, state |-> CLOSED, requests |-> <<>>,
     last_failure_time |-> NoTime,
     consecutive_successes |-> 0, half_open_requests |-> 0,
     recovered |-> FALSE]

\* CircuitBreakerManager._get_breaker: get or create.
GetBreaker(bs, p, t) == IF bs[p].created THEN bs[p] ELSE NewBreaker(t)

\* Mutant of TransitionTo: entering Half-Open does not reset the counters.
TransitionToKeepsCounters(b, new_state, t) ==
    IF b.state # new_state THEN [b EXCEPT !.state = new_state] ELSE b

\* CircuitBreaker._transition_to
TransitionTo(b, new_state, t) ==
    IF b.state # new_state
    THEN [b EXCEPT !.state = new_state,
                   !.half_open_requests = IF new_state = HALF_OPEN THEN 0 ELSE @,
                   !.consecutive_successes = IF new_state = HALF_OPEN THEN 0 ELSE @]
    ELSE b

\* Mutant of CheckStateTransition: the timeout must be exceeded, not just reached.
CheckStateTransitionStrict(b, t) ==
    IF /\ b.state = OPEN
       /\ b.last_failure_time # NoTime
       /\ t - b.last_failure_time > RecoveryTimeout
    THEN TransitionTo(b, HALF_OPEN, t)
    ELSE b

\* CircuitBreaker._check_state_transition
CheckStateTransition(b, t) ==
    IF /\ b.state = OPEN
       /\ b.last_failure_time # NoTime
       /\ t - b.last_failure_time >= RecoveryTimeout
    THEN TransitionTo(b, HALF_OPEN, t)
    ELSE b

\* deque(maxlen=window_size).append
DequeAppend(q, x) ==
    IF Len(q) >= WindowSize THEN Append(Tail(q), x) ELSE Append(q, x)

\* sum(1 for success in self._requests if not success)
Failures(q) == Cardinality({i \in 1..Len(q) : ~q[i]})

\* CircuitBreaker._calculate_error_rate, as the fraction <<numerator, denominator>>.
CalculateErrorRate(q) ==
    IF Len(q) = 0 THEN <<0, 1>> ELSE <<Failures(q), Len(q)>>

\* Mutant of RateAtLeastThreshold: the rate must exceed the threshold.
RateAboveThreshold(rate) ==
    rate[1] * ErrorThresholdDen > ErrorThresholdNum * rate[2]

\* error_rate >= self.config.error_threshold
RateAtLeastThreshold(rate) ==
    rate[1] * ErrorThresholdDen >= ErrorThresholdNum * rate[2]

\* Mutant of CanExecuteResult: Half-Open admits one probe fewer.
CanExecuteResultOneProbeFewer(b) ==
    CASE b.state = CLOSED -> TRUE
      [] b.state = OPEN -> FALSE
      [] b.state = HALF_OPEN -> b.half_open_requests < HalfOpenMaxRequests - 1

\* The value can_execute returns once _check_state_transition has run.
CanExecuteResult(b) ==
    CASE b.state = CLOSED -> TRUE
      [] b.state = OPEN -> FALSE
      [] b.state = HALF_OPEN -> b.half_open_requests < HalfOpenMaxRequests

\* Mutant of RecordSuccess: enough consecutive successes close the breaker from any state.
RecordSuccessClosesFromOpen(b, t) ==
    LET b1 == [b EXCEPT !.requests = DequeAppend(@, TRUE),
                        !.consecutive_successes = @ + 1]
    IN  IF b1.state # CLOSED
        THEN LET b2 == [b1 EXCEPT !.half_open_requests = @ + 1]
             IN  IF b2.consecutive_successes >= HalfOpenMaxRequests
                 THEN [TransitionTo(b2, CLOSED, t) EXCEPT !.recovered = TRUE]
                 ELSE b2
        ELSE b1

\* CircuitBreaker.record_success
RecordSuccess(b, t) ==
    LET b1 == [b EXCEPT !.requests = DequeAppend(@, TRUE),
                        !.consecutive_successes = @ + 1]
    IN  IF b1.state = HALF_OPEN
        THEN LET b2 == [b1 EXCEPT !.half_open_requests = @ + 1]
             IN  IF b2.consecutive_successes >= HalfOpenMaxRequests
                 THEN [TransitionTo(b2, CLOSED, t) EXCEPT !.recovered = TRUE]
                 ELSE b2
        ELSE b1

\* Mutant of RecordFailure: a failure recorded while Open leaves the recovery clock alone.
RecordFailureKeepsClock(b, t) ==
    LET b1 == [b EXCEPT !.requests = DequeAppend(@, FALSE),
                        !.last_failure_time = IF b.state = OPEN THEN @ ELSE t,
                        !.consecutive_successes = 0,
                        !.recovered = FALSE]
    IN  IF b1.state = HALF_OPEN
        THEN TransitionTo(b1, OPEN, t)
        ELSE IF /\ b1.state = CLOSED
                /\ Len(b1.requests) >= MinRequests
                /\ RateAtLeastThreshold(CalculateErrorRate(b1.requests))
             THEN TransitionTo(b1, OPEN, t)
             ELSE b1

\* CircuitBreaker.record_failure
RecordFailure(b, t) ==
    LET b1 == [b EXCEPT !.requests = DequeAppend(@, FALSE),
                        !.last_failure_time = t,
                        !.consecutive_successes = 0,
                        !.recovered = FALSE]
    IN  IF b1.state = HALF_OPEN
        THEN TransitionTo(b1, OPEN, t)
        ELSE IF /\ b1.state = CLOSED
                /\ Len(b1.requests) >= MinRequests
                /\ RateAtLeastThreshold(CalculateErrorRate(b1.requests))
             THEN TransitionTo(b1, OPEN, t)
             ELSE b1

\* Mutant of ResetBreaker: the last-failure time survives the reset.
ResetBreakerKeepsFailureTime(b, t) ==
    [b EXCEPT !.state = CLOSED,
              !.requests = <<>>,
              !.consecutive_successes = 0,
              !.half_open_requests = 0,
              !.recovered = FALSE]

\* CircuitBreaker.reset
ResetBreaker(b, t) ==
    [b EXCEPT !.state = CLOSED,
              !.requests = <<>>,
              !.last_failure_time = NoTime,
              !.consecutive_successes = 0,
              !.half_open_requests = 0,
              !.recovered = FALSE]

(***************************************************************************)
(* CircuitBreakerManager                                                   *)
(***************************************************************************)
\* CircuitBreakerManager.can_execute / get_state / get_stats: the breakers after the query.
ManagerQuery(bs, p, t) ==
    [bs EXCEPT ![p] = CheckStateTransition(GetBreaker(bs, p, t), t)]

\* CircuitBreakerManager.record_success
ManagerRecordSuccess(bs, p, t) ==
    [bs EXCEPT ![p] = RecordSuccess(GetBreaker(bs, p, t), t)]

\* A manager with one failure record shared by all providers.
ManagerRecordFailureShared(bs, p, t) ==
    [q \in Providers |-> RecordFailure(GetBreaker(bs, q, t), t)]

\* CircuitBreakerManager.record_failure
ManagerRecordFailure(bs, p, t) ==
    [bs EXCEPT ![p] = RecordFailure(GetBreaker(bs, p, t), t)]

\* CircuitBreakerManager.reset(provider)
ManagerReset(bs, p, t) ==
    IF bs[p].created THEN [bs EXCEPT ![p] = ResetBreaker(bs[p], t)] ELSE bs

\* CircuitBreakerManager.reset(None)
ManagerResetAll(bs, t) ==
    [q \in Providers |-> IF bs[q].created THEN ResetBreaker(bs[q], t) ELSE bs[q]]

\* Guard keeping _consecutive_successes within the model's range.
MayRecordSuccess(p) == breakers[p].consecutive_successes < MaxConsecutive

(***************************************************************************)
(* QoSSemaphoreRouter and QoSContext                                       *)
(***************************************************************************)
\* The limits the router is constructed with.
InitialLimit(p) == IF p = "fmp" THEN FmpLimit ELSE FredLimit

\* QoSStats()
NewQoSStats == [total_requests |-> 0, active_requests |-> 0, max_concurrent_seen |-> 0]

\* QoSSemaphoreRouter._get_semaphore: the provider's current semaphore (its index in sems[p]).
GetSemaphore(ss, p) == Len(ss[p])

\* A semaphore that still admits one caller when its value is zero.
SemAvailableAtZero(ss, p, g) == ss[p][g] >= 0

\* asyncio.Semaphore.acquire can complete: the value is positive.
SemAvailable(ss, p, g) == ss[p][g] > 0

\* asyncio.Semaphore.acquire, completed.
SemAcquire(ss, p, g) == [ss EXCEPT ![p][g] = @ - 1]

\* A release that leaves the semaphore's value as it is.
SemReleaseLost(ss, p, g) == ss

\* asyncio.Semaphore.release
SemRelease(ss, p, g) == [ss EXCEPT ![p][g] = @ + 1]

\* QoSSemaphoreRouter._on_acquire
OnAcquire(qs, p) ==
    LET active == qs[p].active_requests + 1
    IN  [qs EXCEPT ![p] = [total_requests |-> qs[p].total_requests + 1,
                           active_requests |-> active,
                           max_concurrent_seen |->
                               IF active > qs[p].max_concurrent_seen
                               THEN active ELSE qs[p].max_concurrent_seen]]

\* QoSSemaphoreRouter._on_release
OnRelease(qs, p) ==
    [qs EXCEPT ![p].active_requests = IF @ - 1 > 0 THEN @ - 1 ELSE 0]

\* A scope exit that updates the statistics but keeps the semaphore's slot.
AExitKeepsSlot(ss, qs, p, g) == [sems |-> ss, qstats |-> OnRelease(qs, p)]

\* A scope exit that releases to whatever semaphore the router holds now.
AExitToCurrent(ss, qs, p, g) ==
    [sems |-> SemRelease(ss, p, GetSemaphore(ss, p)), qstats |-> OnRelease(qs, p)]

\* QoSContext.__aexit__: _on_release, then release of the semaphore taken in __aenter__.
AExit(ss, qs, p, g) == [sems |-> SemRelease(ss, p, g), qstats |-> OnRelease(qs, p)]

\* A scope that gives its slot back when the retry handler goes to sleep.
ReleaseDuringSleep(ss, qs, p, g) == [sems |-> SemRelease(ss, p, g), qstats |-> OnRelease(qs, p)]

\* "await asyncio.sleep(delay)" inside the scope's body: the body has not ended,
\* __aexit__ has not run, the semaphore and the statistics are as they were.
HoldSlot(ss, qs, p, g) == [sems |-> ss, qstats |-> qs]

(***************************************************************************)
(* CacheManager, as far as the loader uses it                              *)
(***************************************************************************)
Payloads == {"p1", "p2"}

\* The write calls json.dump needs to put one entry into its file.
EntryChunks == 2

\* No file under a path.
NoEntry == [present |-> FALSE, data |-> "none", timestamp |-> 0, written |-> 0, form |-> "none"]

\* An entry that expires one tick before its TTL has passed.
IsExpiredEarly(e, t) == t + 1 >= e.timestamp + TtlTicks

\* CacheEntry.is_expired
IsExpired(e, t) == t > e.timestamp + TtlTicks

\* What a file that cache.set did not write may hold: bytes that are no UTF-8
\* text, text that is no JSON, JSON that is no object, an object without one of
\* the five fields, an object whose timestamp or ttl_days is no number.
MalformedForms ==
    {"not_text", "invalid_json", "not_object", "missing_field", "bad_timestamp", "bad_ttl"}

\* open(cache_path) and json.load(f) on an existing file: "entry" when it
\* yields a value, else the exception; a part of an entry's text is no JSON.
JsonLoad(f) ==
    IF f.form = "not_text" THEN "UnicodeDecodeError"
    ELSE IF f.written < EntryChunks \/ f.form = "invalid_json" THEN "JSONDecodeError"
    ELSE "entry"

\* CacheEntry.from_dict(data): d["data"] on a value that is no dict raises
\* TypeError, on a dict without the field KeyError.
FromDict(f) ==
    CASE f.form = "not_object" -> "TypeError"
      [] f.form = "missing_field" -> "KeyError"
      [] OTHER -> "entry"

\* entry.is_expired, evaluated before ignore_expired is looked at: comparing
\* time.time() with timestamp + ttl_days * 86400 raises TypeError when one of
\* the two is no number.
ExpiryCheck(f) == IF f.form \in {"bad_timestamp", "bad_ttl"} THEN "TypeError" ELSE "entry"

\* The exception raised inside the try block of CacheManager.get, "none" if none.
GetRaised(f) ==
    CASE JsonLoad(f) # "entry" -> JsonLoad(f)
      [] FromDict(f) # "entry" -> FromDict(f)
      [] ExpiryCheck(f) # "entry" -> ExpiryCheck(f)
      [] OTHER -> "none"

\* except (OSError, json.JSONDecodeError, KeyError) in CacheManager.get
CaughtByGet == {"OSError", "JSONDecodeError", "KeyError"}

\* The exception CacheManager.get lets through to its caller, "none" if none.
GetError(f) ==
    IF f.present /\ GetRaised(f) \notin CaughtByGet THEN GetRaised(f) ELSE "none"

\* CacheManager.get when it returns: the entry, or NoEntry for None.
CacheGet(e, t, ignore_expired) ==
    IF ~e.present THEN NoEntry
    ELSE IF GetRaised(e) # "none" THEN NoEntry
    ELSE IF IsExpired(e, t) /\ ~ignore_expired THEN NoEntry
    ELSE e

\* The provider directories clear_expired goes through when given no provider,
\* in this order, as far as they are registered here.
SweepOrder == <<"fmp", "fred">>

\* CacheManager.clear_expired over the directories dirs at time t: the files
\* after it, the count, and the exception that ended it ("none": it returned).
\* A file whose reading raises an exception that is not caught ends the sweep
\* where it stands.
RECURSIVE ClearExpiredFrom(_, _, _, _)
ClearExpiredFrom(files, dirs, t, count) ==
    IF dirs = <<>>
    THEN [cache |-> files, count |-> count, error |-> "none"]
    ELSE LET p == Head(dirs)
             f == files[p]
         IN  IF ~f.present
             THEN ClearExpiredFrom(files, Tail(dirs), t, count)
             ELSE IF GetRaised(f) = "none"
             THEN IF IsExpired(f, t)
                  THEN ClearExpiredFrom([files EXCEPT ![p] = NoEntry], Tail(dirs), t, count + 1)
                  ELSE ClearExpiredFrom(files, Tail(dirs), t, count)
             ELSE IF GetRaised(f) \in CaughtByGet
             THEN ClearExpiredFrom([files EXCEPT ![p] = NoEntry], Tail(dirs), t, count + 1)
             ELSE [cache |-> files, count |-> count, error |-> GetRaised(f)]

\* Values a caller may hand to cache.set: the payloads, which came out of a
\* JSON parser, and a tuple, which json.dump accepts as well.
SetValues == Payloads \cup {"tuple"}

\* What json.load gives back for the text json.dump wrote for v: a tuple is
\* written as a JSON array and read as a list.
JsonRoundTrip(v) == IF v = "tuple" THEN "list" ELSE v

\* CacheManager.set: the entry os.replace puts under the key's path.
CacheSet(data, t) ==
    [present |-> TRUE, data |-> JsonRoundTrip(data), timestamp |-> t, written |-> EntryChunks,
     form |-> "entry"]

\* tempfile.mkstemp in CacheManager.set: a new empty file, which is to receive
\* the entry created at time t.
NewTempFile(data, t) ==
    [present |-> TRUE, data |-> JsonRoundTrip(data), timestamp |-> t, written |-> 0,
     form |-> "entry"]

\* One write call of json.dump(entry.to_dict(), f).
WriteChunk(f) == [f EXCEPT !.written = @ + 1]

\* A failing set that leaves its temp file behind.
UnlinkNothing(f) == f

\* os.unlink(temp_path) in the except branch of CacheManager.set
Unlink(f) == NoEntry

\* A set that renames its temp file as soon as something is written to it.
DumpStarted(f) == f.written >= 1

\* json.dump has returned and the "with" block has closed the file.
DumpComplete(f) == f.written = EntryChunks

(***************************************************************************)
(* Transport, provider and retry handler                                   *)
(***************************************************************************)
\* Exceptions: the HttpError subclasses HttpClient raises, and one that is no HttpError.
HttpErrors == {"ServerError", "ClientError", "ConnectionError"}
Exceptions == HttpErrors \cup {"ValueError"}

\* getattr(exception, 'status_code', None), 0 for None: ServerError carries a
\* 5xx status, ClientError a 4xx status, the others none.
StatusCode(e) ==
    CASE e = "ServerError" -> 500
      [] e = "ClientError" -> 404
      [] OTHER -> 0

\* isinstance(exception, types)
IsInstance(e, types) == e \in types \/ ("HttpError" \in types /\ e \in HttpErrors)

\* RetryConfig.retryable_exceptions (empty: every type is retried) and
\* RetryConfig.non_retryable_status_codes.
RetryableExceptions == {"HttpError"}
NonRetryableStatusCodes == {400, 401, 403, 404}

\* A handler that retries whatever the exception is.
IsExceptionRetryableAlways(e) == TRUE

\* RetryHandler._is_exception_retryable
IsExceptionRetryable(e) ==
    IF RetryableExceptions # {} /\ ~IsInstance(e, RetryableExceptions)
    THEN FALSE
    ELSE ~(StatusCode(e) # 0 /\ StatusCode(e) \in NonRetryableStatusCodes)

\* What HttpClient gives provider.fetch: a 2xx response with a body, or an
\* HttpError raised by _check_response.
TransportOutcomes ==
    {[status |-> "ok", body |-> d, error |-> "none"] : d \in Payloads}
        \cup {[status |-> "error", body |-> "none", error |-> e] :
                 e \in {"ServerError", "ClientError"}}

\* What the wrapped operation gave the retry handler: a returned response or a
\* raised exception.
Returned(success, data, error) ==
    [kind |-> "return", success |-> success, data |-> data, error |-> error]
Raised(e) == [kind |-> "raise", success |-> FALSE, data |-> "none", error |-> e]

\* A 2xx response whose body is the provider's error envelope, such as FMP's
\* {"Error Message": ...}, and the transport outcomes with it.
ErrorEnvelope == [status |-> "ok", body |-> "error_envelope", error |-> "none"]
ProviderOutcomes == TransportOutcomes \cup {ErrorEnvelope}

\* provider.normalize: an error envelope becomes {"error": ..., "data": None}; a
\* payload is returned in its normalized form, which the model identifies it with.
Normalize(body) == IF body = "error_envelope" THEN "error_sentinel" ELSE body

\* BaseDataProvider.get(use_cache=False): what fetch returned is normalized and
\* wrapped in a success response; every error of fetch is caught and returned as
\* a failure response; nothing is raised.
ProviderGet(outcome) ==
    IF outcome.status = "ok"
    THEN Returned(TRUE, Normalize(outcome.body), "none")
    ELSE Returned(FALSE, "none", outcome.error)

\* HealthMonitor.record_request as called by BaseDataProvider.get
HealthRecord(h, p, success) ==
    [h EXCEPT ![p] = [total |-> @.total + 1,
                      success |-> IF success THEN @.success + 1 ELSE @.success,
                      failed |-> IF success THEN @.failed ELSE @.failed + 1]]

\* HealthMonitor._total_counters of one provider at construction.
NewHealth == [total |-> 0, success |-> 0, failed |-> 0]

(***************************************************************************)
(* HealthMonitor                                                           *)
(***************************************************************************)
\* ProviderStatus
HEALTHY == "healthy"
DEGRADED == "degraded"
UNHEALTHY == "unhealthy"
UNKNOWN == "unknown"

\* The names hard-coded in __init__, get_health_report and reset, and the
\* names a request may be recorded under.
BuiltInNames == {"fmp", "polygon", "fred"}
HealthNames == BuiltInNames \cup {"custom"}

\* HealthMonitor.__init__: empty deques, zero counters, a free lock.  A name
\* that is not a key of _history reads as an empty deque and zero counters
\* (get_provider_metrics) and gets both at its first record.  "recorded" is
\* not a field of the class: it keeps every outcome recorded since the last
\* reset of the name.
NewMonitor ==
    [history |-> [p \in HealthNames |-> <<>>],
     counters |-> [p \in HealthNames |-> NewHealth],
     lock |-> 0,
     recorded |-> [p \in HealthNames |-> <<>>]]

\* A deque without maxlen: nothing is ever dropped.
HistoryAppendUnbounded(h, x) == Append(h, x)

\* deque(maxlen=window_size).append(x): a full deque drops its oldest item.
HistoryAppend(h, x) ==
    IF HealthWindowSize = 0 THEN <<>>
    ELSE IF Len(h) >= HealthWindowSize THEN Append(Tail(h), x)
    ELSE Append(h, x)

\* "self._history[provider].append(metrics)" in record_request.
RecordAppend(m, p, success) ==
    [m EXCEPT !.history[p] = HistoryAppend(@, success),
              !.recorded[p] = Append(@, success)]

\* 'counters["total"] += 1' in record_request.
RecordTotal(m, p) == [m EXCEPT !.counters[p].total = @ + 1]

\* 'counters["success"] += 1' or 'counters["failed"] += 1' in record_request.
RecordOutcome(m, p, success) ==
    IF success THEN [m EXCEPT !.counters[p].success = @ + 1]
    ELSE [m EXCEPT !.counters[p].failed = @ + 1]

\* HealthMonitor.record_request, the whole body under the lock.
RecordRequest(m, p, success) ==
    RecordOutcome(RecordTotal(RecordAppend(m, p, success), p), p, success)

\* "sum(1 for m in history if not m.success)"
RecentFailures(h) == Cardinality({i \in 1 .. Len(h) : ~h[i]})

\* A status that compares with ">" where _determine_status has ">=".
DetermineStatusStrict(total, failures, len) ==
    IF total < MinRequestsForStatus THEN UNKNOWN
    ELSE IF failures * ErrorRateUnhealthyDen > ErrorRateUnhealthyNum * len THEN UNHEALTHY
    ELSE IF failures * ErrorRateDegradedDen > ErrorRateDegradedNum * len THEN DEGRADED
    ELSE HEALTHY

\* HealthMonitor._determine_status for error_rate = failures / len (0.0 for an
\* empty history).  failures / len is the double nearest to the quotient and
\* 0.1, 0.2 are the doubles nearest to 1/10 and 1/5, so for these small
\* integers ">=" on the doubles is ">=" on the fractions.
DetermineStatus(total, failures, len) ==
    IF total < MinRequestsForStatus THEN UNKNOWN
    ELSE IF len > 0 /\ failures * ErrorRateUnhealthyDen >= ErrorRateUnhealthyNum * len
         THEN UNHEALTHY
    ELSE IF len > 0 /\ failures * ErrorRateDegradedDen >= ErrorRateDegradedNum * len
         THEN DEGRADED
    ELSE HEALTHY

\* HealthMonitor.get_provider_metrics: totals from the cumulative counters,
\* the error rate (failures over len) from the deque, the status from both.
GetProviderMetrics(m, p) ==
    LET h == m.history[p]
        c == m.counters[p]
    IN  [total_requests |-> c.total,
         successful_requests |-> c.success,
         failed_requests |-> c.failed,
         failures |-> RecentFailures(h),
         len |-> Len(h),
         status |-> DetermineStatus(c.total, RecentFailures(h), Len(h))]

\* A lock that excludes nobody.
LockIsFreeAlways(m) == TRUE

\* "with self._lock:" can be entered: threading.Lock is held by no thread.
LockIsFree(m) == m.lock = 0

\* HealthMonitor.get_health_report: the statuses of "fmp", "polygon" and "fred"
\* are collected, and the overall status starts as HEALTHY and is replaced by
\* the first of the three tests that holds.
GetHealthReport(m) ==
    LET statuses == {GetProviderMetrics(m, p).status : p \in BuiltInNames}
    IN  IF UNHEALTHY \in statuses THEN UNHEALTHY
        ELSE IF DEGRADED \in statuses THEN DEGRADED
        ELSE IF \A st \in statuses : st = UNKNOWN THEN UNKNOWN
        ELSE HEALTHY

\* HealthMonitor.reset(provider) and reset() (arg = "all"): the built-in names
\* when no provider is given.
MonitorReset(m, arg) ==
    LET ps == IF arg = "all" THEN BuiltInNames ELSE {arg}
    IN  [m EXCEPT !.history = [p \in HealthNames |-> IF p \in ps THEN <<>> ELSE @[p]],
                  !.counters = [p \in HealthNames |-> IF p \in ps THEN NewHealth ELSE @[p]],
                  !.recorded = [p \in HealthNames |-> IF p \in ps THEN <<>> ELSE @[p]]]

\* What an operation wrapped by RetryHandler.execute may do: return a value or
\* raise any exception.
ScopedResults == {Returned(TRUE, "p1", "none")} \cup {Raised(e) : e \in Exceptions}

\* A handler that allows one retry more than max_retries.
RetryDecisionOneMore(r, attempt) ==
    CASE r.kind = "return" -> "return"
      [] r.kind = "raise" /\ ~IsExceptionRetryable(r.error) -> "raise"
      [] OTHER -> IF attempt <= MaxRetries THEN "sleep" ELSE "retry_error"

\* RetryHandler.execute after one attempt ended with r: "sleep" before the next
\* attempt, or how execute ends ("return", "raise", "retry_error").
RetryDecision(r, attempt) ==
    CASE r.kind = "return" -> "return"
      [] r.kind = "raise" /\ ~IsExceptionRetryable(r.error) -> "raise"
      [] OTHER -> IF attempt < MaxRetries THEN "sleep" ELSE "retry_error"

\* RetryStats().  "calls", "ended" and "retries_started" are not fields of the
\* class: they count the execute calls begun, the execute calls that returned
\* or raised, and the attempts begun after a backoff sleep.
NewRetryStats ==
    [total_attempts |-> 0, successful_attempts |-> 0, failed_attempts |-> 0,
     retries_performed |-> 0, calls |-> 0, ended |-> 0, retries_started |-> 0]

\* "self._stats.total_attempts += 1" at the top of the loop of execute.
AttemptStarted(rs) == [rs EXCEPT !.total_attempts = @ + 1]

\* A handler that counts a retry only when it gives up in the end.
AttemptEndedForgetsRetry(rs, d) ==
    CASE d = "return" -> [rs EXCEPT !.successful_attempts = @ + 1, !.ended = @ + 1]
      [] d = "sleep" -> rs
      [] d = "retry_error" -> [rs EXCEPT !.failed_attempts = @ + 1, !.ended = @ + 1,
                                         !.retries_performed = @ + MaxRetries]
      [] OTHER -> [rs EXCEPT !.failed_attempts = @ + 1, !.ended = @ + 1]

\* The counters of execute after an attempt, by what the handler decides:
\* successful_attempts on a return, retries_performed before a sleep,
\* failed_attempts on a non-retryable exception and on exhaustion.
AttemptEnded(rs, d) ==
    CASE d = "return" -> [rs EXCEPT !.successful_attempts = @ + 1, !.ended = @ + 1]
      [] d = "sleep" -> [rs EXCEPT !.retries_performed = @ + 1]
      [] OTHER -> [rs EXCEPT !.failed_attempts = @ + 1, !.ended = @ + 1]

(***************************************************************************)
(* DataLoader                                                              *)
(***************************************************************************)
LIVE == "LIVE"
READ_ONLY == "READ_ONLY"

\* A loader that goes on to the API in every operating mode.
ModeNeverForbidsApi(m) == FALSE

\* if self._operating_mode == OperatingMode.READ_ONLY
ModeForbidsApi(m) == m = READ_ONLY

\* DataLoaderStats()
NewLoaderStats ==
    [total_requests |-> 0, cache_hits |-> 0, cache_misses |-> 0, api_calls |-> 0,
     api_successes |-> 0, api_failures |-> 0, circuit_breaker_rejections |-> 0]

(***************************************************************************)
(* Tasks                                                                   *)
(***************************************************************************)
IdleTask ==
    [pc |-> "idle", kind |-> "none", provider |-> "fmp", admitted_in |-> CLOSED,
     use_cache |-> FALSE, sem |-> 0, attempt |-> 0, outcomes |-> <<>>,
     last_exception |-> "none", data |-> "none", success |-> TRUE, snap |-> <<>>]

\* Tasks are interchangeable: a new call is always given to the lowest idle task.
LowestIdle(t) == \A u \in Tasks : u < t => tasks[u].pc # "idle"

\* lastOp: the breaker operation a step performed, on which provider, and what it returned.
Op(name, p, res) == [op |-> name, p |-> p, res |-> res]
NoOp == Op("none", "fmp", TRUE)

\* lastResp: task, what it was given ("hit", "ok", "fail", "unknown", "read_only",
\* "circuit_open", "value", "raised", "retry_error" or "cancelled"), the payload or
\* breaker state, the error it carries, for RetryError its attempts field,
\* how each invocation of the operation ended ("returned" or the exception),
\* and for clear_expired the count it returned.
Resp(t, kind, p, uc, result, data) ==
    [task |-> t, kind |-> kind, provider |-> p, use_cache |-> uc,
     result |-> result, data |-> data, error |-> "none", attempts |-> 0,
     outcomes |-> <<>>, count |-> 0, snap |-> <<>>]
NoResp == Resp(0, "none", "none", FALSE, "none", "none")

(***************************************************************************)
(* The breaker manager's API, called directly.                             *)
(***************************************************************************)
\* manager.can_execute(p)
CanExecute(p) ==
    /\ LET bs == ManagerQuery(breakers, p, now)
       IN  /\ breakers' = bs
           /\ lastOp' = Op("can_execute", p, CanExecuteResult(bs[p]))
    /\ lastResp' = NoResp
    /\ UNCHANGED <<now, tasks, loaderVars>>

\* manager.record_success(p)
DirectRecordSuccess(p) ==
    /\ MayRecordSuccess(p)
    /\ breakers' = ManagerRecordSuccess(breakers, p, now)
    /\ lastOp' = Op("record_success", p, TRUE)
    /\ lastResp' = NoResp
    /\ UNCHANGED <<now, tasks, loaderVars>>

\* manager.record_failure(p)
DirectRecordFailure(p) ==
    /\ breakers' = ManagerRecordFailure(breakers, p, now)
    /\ lastOp' = Op("record_failure", p, TRUE)
    /\ lastResp' = NoResp
    /\ UNCHANGED <<now, tasks, loaderVars>>

\* manager.get_state(p): the state property.
GetState(p) ==
    /\ breakers' = ManagerQuery(breakers, p, now)
    /\ lastOp' = Op("state", p, TRUE)
    /\ lastResp' = NoResp
    /\ UNCHANGED <<now, tasks, loaderVars>>

\* manager.get_stats(p)
GetStats(p) ==
    /\ breakers' = ManagerQuery(breakers, p, now)
    /\ lastOp' = Op("get_stats", p, TRUE)
    /\ lastResp' = NoResp
    /\ UNCHANGED <<now, tasks, loaderVars>>

\* manager.reset(p)
Reset(p) ==
    /\ breakers' = ManagerReset(breakers, p, now)
    /\ lastOp' = Op("reset", p, TRUE)
    /\ lastResp' = NoResp
    /\ UNCHANGED <<now, tasks, loaderVars>>

\* manager.reset()
ResetAll ==
    /\ breakers' = ManagerResetAll(breakers, now)
    /\ lastOp' = Op("reset_all", "fmp", TRUE)
    /\ lastResp' = NoResp
    /\ UNCHANGED <<now, tasks, loaderVars>>

\* The wall clock advances; nothing in the program runs.
Tick ==
    /\ now < MaxClock
    /\ now' = now + 1
    /\ lastOp' = NoOp
    /\ lastResp' = NoResp
    /\ UNCHANGED <<breakers, tasks, mode, cache, tempfiles, limits, sems, qstats, lstats, health, monitor, rstats>>

(***************************************************************************)
(* Callers of manager.execute(p, func), or of the manual pattern of the    *)
(* manager's docstring: can_execute, the call, record_success / _failure.  *)
(***************************************************************************)
\* A caller asks manager.can_execute(p); when admitted it goes on to make its call.
CallerCanExecute(t, p) ==
    /\ tasks[t].pc = "idle"
    /\ LowestIdle(t)
    /\ LET bs == ManagerQuery(breakers, p, now)
           res == CanExecuteResult(bs[p])
       IN  /\ breakers' = bs
           /\ lastOp' = Op("can_execute", p, res)
           /\ tasks' = IF res
                       THEN [tasks EXCEPT ![t] = [IdleTask EXCEPT !.pc = "admitted",
                                                   !.provider = p,
                                                   !.admitted_in = bs[p].state]]
                       ELSE tasks
    /\ lastResp' = NoResp
    /\ UNCHANGED <<now, loaderVars>>

\* An admitted caller's call returned: manager.record_success(p).
CallerRecordSuccess(t) ==
    /\ tasks[t].pc = "admitted"
    /\ MayRecordSuccess(tasks[t].provider)
    /\ breakers' = ManagerRecordSuccess(breakers, tasks[t].provider, now)
    /\ lastOp' = Op("record_success", tasks[t].provider, TRUE)
    /\ tasks' = [tasks EXCEPT ![t] = IdleTask]
    /\ lastResp' = NoResp
    /\ UNCHANGED <<now, loaderVars>>

\* An admitted caller's call raised: manager.record_failure(p).
CallerRecordFailure(t) ==
    /\ tasks[t].pc = "admitted"
    /\ breakers' = ManagerRecordFailure(breakers, tasks[t].provider, now)
    /\ lastOp' = Op("record_failure", tasks[t].provider, TRUE)
    /\ tasks' = [tasks EXCEPT ![t] = IdleTask]
    /\ lastResp' = NoResp
    /\ UNCHANGED <<now, loaderVars>>

(***************************************************************************)
(* Guarded scopes: "async with router.acquire(p)" around                   *)
(* retry_handler.execute(op), and DataLoader._fetch_with_resilience.       *)
(* A step runs from one suspension point of the coroutine to the next.     *)
(***************************************************************************)
\* The task's locals once it is inside QoSContext.__aenter__.
Entered(t, kind, p, uc, g, pc, st) ==
    [IdleTask EXCEPT !.pc = pc, !.kind = kind, !.provider = p, !.use_cache = uc,
                     !.sem = g, !.admitted_in = st]

\* Guarded scopes entered so far, and tasks waiting to enter one.
ScopesStarted ==
    qstats[Primary].total_requests + qstats[Secondary].total_requests
        + Cardinality({t \in Tasks : tasks[t].pc = "wait_sem"})

\* async with router.acquire(p): __aenter__ takes the slot at once when the
\* semaphore has one, else the task waits on that semaphore.
ScopedStart(t, p) ==
    /\ tasks[t].pc = "idle"
    /\ LowestIdle(t)
    /\ LET g == GetSemaphore(sems, p)
       IN  IF SemAvailable(sems, p, g)
           THEN /\ sems' = SemAcquire(sems, p, g)
                /\ qstats' = OnAcquire(qstats, p)
                /\ tasks' = [tasks EXCEPT ![t] = Entered(t, "scoped", p, FALSE, g, "call", CLOSED)]
           ELSE /\ tasks' = [tasks EXCEPT ![t] = Entered(t, "scoped", p, FALSE, g, "wait_sem", CLOSED)]
                /\ UNCHANGED <<sems, qstats>>
    /\ lastOp' = NoOp
    /\ lastResp' = NoResp
    /\ UNCHANGED <<now, breakers, mode, cache, tempfiles, limits, lstats, health, monitor, rstats>>

\* DataLoader._fetch_with_resilience from its entry to its first suspension
\* point, as new values of the variables it can change.  t2 is time.time() as
\* read by get_state after can_execute returned False.
FetchEntry(t, p, uc, t2) ==
    LET base == [breakers |-> breakers, tasks |-> tasks, lastOp |-> NoOp, sems |-> sems,
                 qstats |-> qstats, now |-> now,
                 lstats |-> [lstats EXCEPT !.total_requests = @ + 1],
                 lastResp |-> NoResp]
    IN  IF p \notin Providers
        THEN [base EXCEPT !.lastResp = Resp(t, "fetch", p, uc, "unknown", "none")]
        ELSE
        LET cached == CacheGet(cache[p], now, FALSE)
        IN  IF uc /\ GetError(cache[p]) # "none"
            THEN [base EXCEPT !.lastResp = [Resp(t, "fetch", p, uc, "raised", "none")
                                               EXCEPT !.error = GetError(cache[p])]]
            ELSE
            IF uc /\ cached.present /\ ~IsExpired(cached, now)
            THEN [base EXCEPT !.lstats.cache_hits = @ + 1,
                              !.lastResp = Resp(t, "fetch", p, uc, "hit", cached.data)]
            ELSE
            LET s2 == IF uc THEN [base.lstats EXCEPT !.cache_misses = @ + 1] ELSE base.lstats
            IN  IF ModeForbidsApi(mode)
                THEN [base EXCEPT !.lstats = s2,
                                  !.lastResp = Resp(t, "fetch", p, uc, "read_only", "none")]
                ELSE
                LET bs == ManagerQuery(breakers, p, now)
                IN  IF ~CanExecuteResult(bs[p])
                    THEN LET bs2 == ManagerQuery(bs, p, t2)
                         IN  [base EXCEPT
                                 !.breakers = bs2,
                                 !.now = t2,
                                 !.lastOp = Op("can_execute", p, FALSE),
                                 !.lstats = [s2 EXCEPT !.circuit_breaker_rejections = @ + 1],
                                 !.lastResp = Resp(t, "fetch", p, uc, "circuit_open",
                                                   bs2[p].state)]
                    ELSE
                    LET g == GetSemaphore(sems, p)
                    IN  IF SemAvailable(sems, p, g)
                        THEN [base EXCEPT
                                 !.breakers = bs,
                                 !.lastOp = Op("can_execute", p, TRUE),
                                 !.sems = SemAcquire(sems, p, g),
                                 !.qstats = OnAcquire(qstats, p),
                                 !.lstats = [s2 EXCEPT !.api_calls = @ + 1],
                                 !.tasks = [tasks EXCEPT ![t] =
                                     Entered(t, "fetch", p, uc, g, "call", bs[p].state)]]
                        ELSE [base EXCEPT
                                 !.breakers = bs,
                                 !.lastOp = Op("can_execute", p, TRUE),
                                 !.lstats = s2,
                                 !.tasks = [tasks EXCEPT ![t] =
                                     Entered(t, "fetch", p, uc, g, "wait_sem", bs[p].state)]]

\* A fetch is started: loader.get_*_data(..., use_cache=uc) for provider name p.
FetchStart(t, p, uc) ==
    /\ tasks[t].pc = "idle"
    /\ LowestIdle(t)
    /\ \E t2 \in {now, IF now < MaxClock THEN now + 1 ELSE now} :
          LET n == FetchEntry(t, p, uc, t2)
          IN  /\ breakers' = n.breakers
              /\ tasks' = n.tasks
              /\ lastOp' = n.lastOp
              /\ sems' = n.sems
              /\ qstats' = n.qstats
              /\ lstats' = n.lstats
              /\ lastResp' = n.lastResp
              /\ now' = n.now
    /\ UNCHANGED <<mode, cache, tempfiles, limits, health, monitor, rstats>>

\* A task waiting in __aenter__ is given a slot of the semaphore it waits on;
\* then _on_acquire and, in a fetch, api_calls += 1, up to the first attempt.
SemGranted(t) ==
    /\ tasks[t].pc = "wait_sem"
    /\ LET p == tasks[t].provider
           g == tasks[t].sem
       IN  /\ SemAvailable(sems, p, g)
           /\ sems' = SemAcquire(sems, p, g)
           /\ qstats' = OnAcquire(qstats, p)
    /\ tasks' = [tasks EXCEPT ![t].pc = "call"]
    /\ lstats' = IF tasks[t].kind = "fetch"
                 THEN [lstats EXCEPT !.api_calls = @ + 1] ELSE lstats
    /\ lastOp' = NoOp
    /\ lastResp' = NoResp
    /\ UNCHANGED <<now, breakers, mode, cache, tempfiles, limits, health, monitor, rstats>>

\* A loader that caches every success response, asked for or not.
ShouldCacheAlways(uc, r) == r.success

\* "if use_cache and response.success:" before self._cache.set in the loader.
ShouldCache(uc, r) == uc /\ r.success

\* What the operation of task t may end with: provider.get of a transport
\* outcome in a fetch, anything in a guarded scope.
ResultsOf(t) ==
    IF tasks[t].kind = "fetch"
    THEN {ProviderGet(o) : o \in ProviderOutcomes}
    ELSE ScopedResults

\* "self._stats.api_successes += 1" after retry_handler.execute returned r, and
\* a loader that counts a success only for a success response.
CountSuccessIfOk(ls, r) == IF r.success THEN [ls EXCEPT !.api_successes = @ + 1] ELSE ls
CountApiSuccess(ls, r) == [ls EXCEPT !.api_successes = @ + 1]

\* "last_exception = e" in RetryHandler.execute, and a handler that keeps the
\* first exception it saw.
KeepFirstException(prev, e) == IF prev = "none" THEN e ELSE prev
RecordException(prev, e) == e

\* One attempt of retry_handler.execute ends with r.  Either the handler goes to
\* sleep before the next attempt, or execute ends, the rest of the scope's body
\* runs (in a fetch: breaker record, counters, cache.set, which stores iff
\* stored) and __aexit__ gives the slot back.  In a fetch the attempt is
\* provider.get, which has recorded the request on the health monitor.
CallReturns(t, r, stored) ==
    /\ tasks[t].pc = "call"
    /\ r \in ResultsOf(t)
    /\ LET p == tasks[t].provider
           uc == tasks[t].use_cache
           kind == tasks[t].kind
           d == RetryDecision(r, tasks[t].attempt)
           outcomes == Append(tasks[t].outcomes,
                              IF r.kind = "raise" THEN r.error ELSE "returned")
           last_exception == IF r.kind = "raise"
                             THEN RecordException(tasks[t].last_exception, r.error)
                             ELSE tasks[t].last_exception
           out == AExit(sems, qstats, p, tasks[t].sem)
           held == HoldSlot(sems, qstats, p, tasks[t].sem)
           ended(result, data, error, attempts) ==
               [Resp(t, kind, p, uc, result, data) EXCEPT
                   !.error = error, !.attempts = attempts, !.outcomes = outcomes]
       IN  /\ health' = IF kind = "fetch" THEN HealthRecord(health, p, r.success) ELSE health
           /\ IF d = "sleep"
              THEN /\ tasks' = [tasks EXCEPT ![t].pc = "backoff", ![t].outcomes = outcomes,
                                             ![t].last_exception = last_exception]
                   /\ sems' = held.sems
                   /\ qstats' = held.qstats
                   /\ lastOp' = NoOp
                   /\ lastResp' = NoResp
                   /\ UNCHANGED <<breakers, cache, tempfiles, lstats>>
              ELSE /\ tasks' = [tasks EXCEPT ![t] = IdleTask]
                   /\ sems' = out.sems
                   /\ qstats' = out.qstats
                   /\ IF kind = "fetch"
                      THEN IF d = "return"
                           THEN /\ breakers' = ManagerRecordSuccess(breakers, p, now)
                                /\ lastOp' = Op("record_success", p, TRUE)
                                /\ lstats' = CountApiSuccess(lstats, r)
                                /\ cache' = IF ShouldCache(uc, r) /\ stored
                                            THEN [cache EXCEPT ![p] = CacheSet(r.data, now)]
                                            ELSE cache
                                /\ lastResp' = ended(IF r.success THEN "ok" ELSE "fail",
                                                     r.data, r.error, 0)
                           ELSE /\ breakers' = ManagerRecordFailure(breakers, p, now)
                                /\ lastOp' = Op("record_failure", p, TRUE)
                                /\ lstats' = [lstats EXCEPT !.api_failures = @ + 1]
                                /\ cache' = cache
                                /\ lastResp' = ended("fail", "none", last_exception, 0)
                      ELSE /\ lastOp' = NoOp
                           /\ lastResp' =
                                 CASE d = "return" -> ended("value", r.data, "none", 0)
                                   [] d = "raise" -> ended("raised", "none", r.error, 0)
                                   [] d = "retry_error" ->
                                        ended("retry_error", "none", last_exception,
                                              MaxRetries + 1)
                           /\ UNCHANGED <<breakers, cache, tempfiles, lstats>>
    /\ UNCHANGED <<now, mode, tempfiles, limits, monitor, rstats>>

\* asyncio.sleep(delay) in RetryHandler.execute is over: the next attempt starts.
BackoffDone(t) ==
    /\ tasks[t].pc = "backoff"
    /\ tasks' = [tasks EXCEPT ![t].pc = "call", ![t].attempt = @ + 1]
    /\ lastOp' = NoOp
    /\ lastResp' = NoResp
    /\ UNCHANGED <<now, breakers, loaderVars>>

\* A cancellation that runs __aexit__ wherever it arrives, also in a task that
\* is still inside __aenter__.
ExitOnCancelAlways(ss, qs, p, g, pc) == AExit(ss, qs, p, g)

\* "async with self._qos.acquire(provider)" when CancelledError arrives: raised
\* out of "await self._semaphore.acquire()" nothing was taken and __aexit__ does
\* not run; raised in the body, __aexit__ runs once.
ExitOnCancel(ss, qs, p, g, pc) ==
    IF pc = "wait_sem" THEN [sems |-> ss, qstats |-> qs] ELSE AExit(ss, qs, p, g)

\* The task is cancelled at its suspension point.  CancelledError is not an
\* Exception: no handler catches it; a scope that was entered runs __aexit__.
Cancel(t) ==
    /\ tasks[t].pc \in {"wait_sem", "call", "backoff"}
    /\ LET p == tasks[t].provider
           out == ExitOnCancel(sems, qstats, p, tasks[t].sem, tasks[t].pc)
       IN  /\ sems' = out.sems
           /\ qstats' = out.qstats
           /\ lastResp' = Resp(t, tasks[t].kind, p, tasks[t].use_cache, "cancelled", "none")
    /\ tasks' = [tasks EXCEPT ![t] = IdleTask]
    /\ lastOp' = NoOp
    /\ UNCHANGED <<now, breakers, mode, cache, tempfiles, limits, lstats, health, monitor, rstats>>

\* monitor.record_success / record_failure (p, ...) by the only thread.
HealthRecordRequest(p, success) ==
    /\ LockIsFree(monitor)
    /\ monitor' = RecordRequest(monitor, p, success)
    /\ lastOp' = NoOp
    /\ lastResp' = NoResp
    /\ UNCHANGED <<now, breakers, tasks, mode, cache, tempfiles, limits, sems, qstats, lstats,
                   health, rstats>>

\* monitor.get_provider_metrics(p) by the only thread: the snapshot's status
\* and totals are what the caller sees.
HealthGetMetrics(p) ==
    /\ LockIsFree(monitor)
    /\ LET m == GetProviderMetrics(monitor, p)
       IN  lastResp' = [Resp(0, "metrics", p, FALSE, m.status, "none") EXCEPT
                           !.count = m.total_requests]
    /\ lastOp' = NoOp
    /\ UNCHANGED <<now, breakers, tasks, loaderVars>>

\* Thread t calls monitor.record_request(p, ..., success, ...): the
\* RequestMetrics object is built and the thread arrives at "with self._lock:".
ThreadRecordCall(t, p, success) ==
    /\ tasks[t].pc = "idle"
    /\ LowestIdle(t)
    /\ tasks' = [tasks EXCEPT ![t] = [IdleTask EXCEPT !.pc = "lock_wait", !.kind = "record",
                                                      !.provider = p, !.success = success]]
    /\ lastOp' = NoOp
    /\ lastResp' = NoResp
    /\ UNCHANGED <<now, breakers, loaderVars>>

\* Thread t calls monitor.get_provider_metrics(p) and arrives at "with self._lock:".
ThreadMetricsCall(t, p) ==
    /\ tasks[t].pc = "idle"
    /\ LowestIdle(t)
    /\ tasks' = [tasks EXCEPT ![t] = [IdleTask EXCEPT !.pc = "lock_wait", !.kind = "metrics",
                                                      !.provider = p]]
    /\ lastOp' = NoOp
    /\ lastResp' = NoResp
    /\ UNCHANGED <<now, breakers, loaderVars>>

\* Thread t enters "with self._lock:".
LockAcquire(t) ==
    /\ tasks[t].pc = "lock_wait"
    /\ LockIsFree(monitor)
    /\ monitor' = [monitor EXCEPT !.lock = t]
    /\ tasks' = [tasks EXCEPT ![t].pc = IF tasks[t].kind = "record" THEN "append"
                                        ELSE "read_total"]
    /\ lastOp' = NoOp
    /\ lastResp' = NoResp
    /\ UNCHANGED <<now, breakers, mode, cache, tempfiles, limits, sems, qstats, lstats,
                   health, rstats>>

\* The next statement of record_request under the lock: the append to the
\* deque, the total, then the outcome's counter, the release of the lock and
\* the return.
RecordStep(t) ==
    /\ tasks[t].kind = "record"
    /\ tasks[t].pc \in {"append", "total", "outcome"}
    /\ LET p == tasks[t].provider
       IN  CASE tasks[t].pc = "append" ->
                  /\ monitor' = RecordAppend(monitor, p, tasks[t].success)
                  /\ tasks' = [tasks EXCEPT ![t].pc = "total"]
                  /\ lastResp' = NoResp
             [] tasks[t].pc = "total" ->
                  /\ monitor' = RecordTotal(monitor, p)
                  /\ tasks' = [tasks EXCEPT ![t].pc = "outcome"]
                  /\ lastResp' = NoResp
             [] tasks[t].pc = "outcome" ->
                  /\ monitor' = [RecordOutcome(monitor, p, tasks[t].success) EXCEPT !.lock = 0]
                  /\ tasks' = [tasks EXCEPT ![t] = IdleTask]
                  /\ lastResp' = Resp(t, "record", p, FALSE, "recorded", "none")
    /\ lastOp' = NoOp
    /\ UNCHANGED <<now, breakers, mode, cache, tempfiles, limits, sems, qstats, lstats,
                   health, rstats>>

\* The next statement of get_provider_metrics under the lock: the three
\* cumulative counters are copied one after the other, then the rate and the
\* status are computed, the lock is released and the snapshot returned.
MetricsStep(t) ==
    /\ tasks[t].kind = "metrics"
    /\ tasks[t].pc \in {"read_total", "read_success", "read_failed"}
    /\ LET p == tasks[t].provider
           c == monitor.counters[p]
           h == monitor.history[p]
       IN  CASE tasks[t].pc = "read_total" ->
                  /\ tasks' = [tasks EXCEPT ![t].pc = "read_success",
                                            ![t].snap = <<c.total>>]
                  /\ monitor' = monitor
                  /\ lastResp' = NoResp
             [] tasks[t].pc = "read_success" ->
                  /\ tasks' = [tasks EXCEPT ![t].pc = "read_failed",
                                            ![t].snap = Append(@, c.success)]
                  /\ monitor' = monitor
                  /\ lastResp' = NoResp
             [] tasks[t].pc = "read_failed" ->
                  LET snap == Append(tasks[t].snap, c.failed)
                      status == DetermineStatus(snap[1], RecentFailures(h), Len(h))
                  IN  /\ tasks' = [tasks EXCEPT ![t] = IdleTask]
                      /\ monitor' = [monitor EXCEPT !.lock = 0]
                      /\ lastResp' = [Resp(t, "metrics", p, FALSE, status, "none") EXCEPT
                                          !.count = snap[1], !.snap = snap]
    /\ lastOp' = NoOp
    /\ UNCHANGED <<now, breakers, mode, cache, tempfiles, limits, sems, qstats, lstats,
                   health, rstats>>

\* monitor.get_health_report() by the only thread.
HealthReport ==
    /\ LockIsFree(monitor)
    /\ lastResp' = Resp(0, "report", "all", FALSE, GetHealthReport(monitor), "none")
    /\ lastOp' = NoOp
    /\ UNCHANGED <<now, breakers, tasks, loaderVars>>

\* monitor.reset(provider) or monitor.reset() by the only thread.
HealthReset(arg) ==
    /\ LockIsFree(monitor)
    /\ monitor' = MonitorReset(monitor, arg)
    /\ lastOp' = NoOp
    /\ lastResp' = Resp(0, "reset", arg, FALSE, "none", "none")
    /\ UNCHANGED <<now, breakers, tasks, mode, cache, tempfiles, limits, sems, qstats, lstats,
                   health, rstats>>

\* Task t awaits handler.execute(func): the first attempt is counted and func
\* is called.
ExecuteCall(t) ==
    /\ tasks[t].pc = "idle"
    /\ LowestIdle(t)
    /\ tasks' = [tasks EXCEPT ![t] = [IdleTask EXCEPT !.pc = "call", !.kind = "execute"]]
    /\ rstats' = [AttemptStarted(rstats) EXCEPT !.calls = @ + 1]
    /\ lastOp' = NoOp
    /\ lastResp' = NoResp
    /\ UNCHANGED <<now, breakers, mode, cache, tempfiles, limits, sems, qstats, lstats, health,
                   monitor>>

\* func of task t's execute ends with r: execute returns the value, re-raises
\* a non-retryable exception, counts a retry and sleeps, or raises RetryError.
ExecuteAttemptEnds(t, r) ==
    /\ tasks[t].kind = "execute"
    /\ tasks[t].pc = "call"
    /\ LET d == RetryDecision(r, tasks[t].attempt)
           outcomes == Append(tasks[t].outcomes,
                              IF r.kind = "raise" THEN r.error ELSE "returned")
           last_exception == IF r.kind = "raise"
                             THEN RecordException(tasks[t].last_exception, r.error)
                             ELSE tasks[t].last_exception
           ended(result, data, error, attempts) ==
               [Resp(t, "execute", "none", FALSE, result, data) EXCEPT
                   !.error = error, !.attempts = attempts, !.outcomes = outcomes]
       IN  /\ rstats' = AttemptEnded(rstats, d)
           /\ IF d = "sleep"
              THEN /\ tasks' = [tasks EXCEPT ![t].pc = "backoff", ![t].outcomes = outcomes,
                                             ![t].last_exception = last_exception]
                   /\ lastResp' = NoResp
              ELSE /\ tasks' = [tasks EXCEPT ![t] = IdleTask]
                   /\ lastResp' =
                         CASE d = "return" -> ended("value", r.data, "none", 0)
                           [] d = "raise" -> ended("raised", "none", r.error, 0)
                           [] d = "retry_error" ->
                                ended("retry_error", "none", last_exception, MaxRetries + 1)
    /\ lastOp' = NoOp
    /\ UNCHANGED <<now, breakers, mode, cache, tempfiles, limits, sems, qstats, lstats, health,
                   monitor>>

\* The backoff sleep of task t's execute is over: the next attempt is counted
\* and func is called again.
ExecuteSleepEnds(t) ==
    /\ tasks[t].kind = "execute"
    /\ tasks[t].pc = "backoff"
    /\ tasks' = [tasks EXCEPT ![t].pc = "call", ![t].attempt = @ + 1]
    /\ rstats' = [AttemptStarted(rstats) EXCEPT !.retries_started = @ + 1]
    /\ lastOp' = NoOp
    /\ lastResp' = NoResp
    /\ UNCHANGED <<now, breakers, mode, cache, tempfiles, limits, sems, qstats, lstats, health,
                   monitor>>

\* cache.set(p, key, data) by a thread or process of its own, up to mkstemp:
\* the entry is created with the current time and an empty temp file exists.
SetBegin(t, p, data) ==
    /\ tasks[t].pc = "idle"
    /\ LowestIdle(t)
    /\ tasks' = [tasks EXCEPT ![t] = [IdleTask EXCEPT !.pc = "write", !.kind = "set",
                                                      !.provider = p, !.data = data]]
    /\ tempfiles' = [tempfiles EXCEPT ![t] = NewTempFile(data, now)]
    /\ lastOp' = NoOp
    /\ lastResp' = NoResp
    /\ UNCHANGED <<now, breakers, mode, cache, limits, sems, qstats, lstats, health, monitor, rstats>>

\* cache.set(p, key, data) whose mkdir or mkstemp raises: no temp file was
\* made and set returns False.
SetFailsEarly(t, p, data) ==
    /\ tasks[t].pc = "idle"
    /\ LowestIdle(t)
    /\ lastOp' = NoOp
    /\ lastResp' = [Resp(t, "set", p, TRUE, "not_stored", data) EXCEPT !.error = "mkstemp"]
    /\ UNCHANGED <<now, breakers, tasks, loaderVars>>

\* The next step of a running cache.set: one more write of json.dump, or, the
\* file being written and closed, os.replace(temp_path, cache_path) and return True.
SetStep(t) ==
    /\ tasks[t].pc = "write"
    /\ LET p == tasks[t].provider
           f == tempfiles[t]
       IN  IF DumpComplete(f)
           THEN /\ cache' = [cache EXCEPT ![p] = f]
                /\ tempfiles' = [tempfiles EXCEPT ![t] = NoEntry]
                /\ tasks' = [tasks EXCEPT ![t] = IdleTask]
                /\ lastResp' = Resp(t, "set", p, TRUE, "stored", tasks[t].data)
           ELSE /\ tempfiles' = [tempfiles EXCEPT ![t] = WriteChunk(f)]
                /\ lastResp' = NoResp
                /\ UNCHANGED <<cache, tasks>>
    /\ lastOp' = NoOp
    /\ UNCHANGED <<now, breakers, mode, limits, sems, qstats, lstats, health, monitor, rstats>>

\* A write or the rename of a running cache.set raises: the temp file is
\* unlinked and set returns False.  The response names the step that failed.
SetFails(t) ==
    /\ tasks[t].pc = "write"
    /\ tempfiles' = [tempfiles EXCEPT ![t] = Unlink(@)]
    /\ tasks' = [tasks EXCEPT ![t] = IdleTask]
    /\ lastOp' = NoOp
    /\ lastResp' = [Resp(t, "set", tasks[t].provider, TRUE, "not_stored", tasks[t].data)
                       EXCEPT !.error = IF DumpComplete(tempfiles[t]) THEN "replace" ELSE "dump"]
    /\ UNCHANGED <<now, breakers, mode, cache, limits, sems, qstats, lstats, health, monitor, rstats>>

\* A reader's cache.get(p, key): what it finds under the key's path.
CacheRead(p) ==
    /\ lastResp' = LET f == cache[p]
                   IN  [Resp(0, "read", p, TRUE,
                            IF ~f.present THEN "absent"
                            ELSE IF GetError(f) # "none" THEN "raised"
                            ELSE IF GetRaised(f) # "none" THEN GetRaised(f)
                            ELSE IF IsExpired(f, now) THEN "expired"
                            ELSE "hit",
                            IF GetError(f) # "none" THEN "none"
                            ELSE CacheGet(f, now, FALSE).data)
                          EXCEPT !.error = GetError(f)]
    /\ lastOp' = NoOp
    /\ UNCHANGED <<now, breakers, tasks, loaderVars>>

\* cache.delete(p, key)
CacheDelete(p) ==
    /\ cache[p].present
    /\ cache' = [cache EXCEPT ![p] = NoEntry]
    /\ lastOp' = NoOp
    /\ lastResp' = NoResp
    /\ UNCHANGED <<now, breakers, tasks, mode, tempfiles, limits, sems, qstats, lstats, health, monitor, rstats>>

\* Something other than cache.set leaves a file under the key's path: a
\* damaged disk, another program, an earlier version of this one, a test.
CorruptFile(p, form) ==
    /\ cache[p].form # form
    /\ cache' = [cache EXCEPT ![p] = [CacheSet("p1", now) EXCEPT !.form = form]]
    /\ lastOp' = NoOp
    /\ lastResp' = NoResp
    /\ UNCHANGED <<now, breakers, tasks, mode, tempfiles, limits, sems, qstats, lstats, health, monitor, rstats>>

\* cache.clear_expired(provider), or cache.clear_expired() for arg = "all".
ClearExpired(arg) ==
    /\ LET r == ClearExpiredFrom(cache, IF arg = "all" THEN SweepOrder ELSE <<arg>>, now, 0)
       IN  /\ cache' = r.cache
           /\ lastResp' = [Resp(0, "clear_expired", arg, TRUE,
                                IF r.error = "none" THEN "returned" ELSE "raised", "none")
                              EXCEPT !.error = r.error, !.count = r.count]
    /\ lastOp' = NoOp
    /\ UNCHANGED <<now, breakers, tasks, mode, tempfiles, limits, sems, qstats, lstats, health, monitor, rstats>>

\* router.set_limit(p, n), n >= 1
SetLimit(p, n) ==
    /\ Len(sems[p]) <= MaxSetLimits
    /\ limits' = [limits EXCEPT ![p] = n]
    /\ sems' = [sems EXCEPT ![p] = Append(@, n)]
    /\ lastOp' = NoOp
    /\ lastResp' = NoResp
    /\ UNCHANGED <<now, breakers, tasks, mode, cache, tempfiles, qstats, lstats, health, monitor, rstats>>

\* loader.set_operating_mode(m)
SetOperatingMode(m) ==
    /\ m # mode
    /\ mode' = m
    /\ lastOp' = NoOp
    /\ lastResp' = NoResp
    /\ UNCHANGED <<now, breakers, tasks, cache, tempfiles, limits, sems, qstats, lstats, health, monitor, rstats>>

(***************************************************************************)
(* Specifications                                                          *)
(***************************************************************************)
Init ==
    /\ now = 1
    /\ breakers = [p \in Providers |-> NoBreaker]
    /\ tasks = [t \in Tasks |-> IdleTask]
    /\ lastOp = NoOp
    /\ mode = LIVE
    /\ cache = [p \in Providers |-> NoEntry]
    /\ tempfiles = [t \in Tasks |-> NoEntry]
    /\ limits = [p \in Providers |-> InitialLimit(p)]
    /\ sems = [p \in Providers |-> <<InitialLimit(p)>>]
    /\ qstats = [p \in Providers |-> NewQoSStats]
    /\ lstats = NewLoaderStats
    /\ health = [p \in Providers |-> NewHealth]
    /\ monitor = NewMonitor
    /\ rstats = NewRetryStats
    /\ lastResp = NoResp

\* The breaker manager under direct calls of its API.
NextBreaker ==
    \/ CanExecute(Primary)
    \/ DirectRecordSuccess(Primary)
    \/ \E p \in Providers : DirectRecordFailure(p)
    \/ GetState(Primary)
    \/ GetStats(Primary)
    \/ \E p \in Providers : Reset(p)
    \/ ResetAll
    \/ Tick

SpecBreaker == Init /\ [][NextBreaker]_vars

\* Concurrent callers of one provider's breaker.
NextProbes ==
    \/ \E t \in Tasks : CallerCanExecute(t, Primary)
    \/ \E t \in Tasks : CallerRecordSuccess(t)
    \/ \E t \in Tasks : CallerRecordFailure(t)
    \/ Tick

SpecProbes == Init /\ [][NextProbes]_vars

\* Names a fetch can be given: a registered provider or one that is not.
FetchNames == {Secondary, "unknown"}

\* What the operations of the guarded scopes end with: a value, an exception the
\* handler retries, one it does not.
GateResults == {Returned(TRUE, "p1", "none"), Raised("ConnectionError"), Raised("ValueError")}

\* Guarded scopes of the second provider, whose limit may be raised, and
\* uncached fetches of the first sharing the router.
NextGate ==
    \/ \E t \in Tasks : ScopesStarted < MaxScopes /\ ScopedStart(t, Secondary)
    \/ \E t \in Tasks :
          /\ ScopesStarted < MaxScopes
          /\ lstats.total_requests < MaxScopes
          /\ FetchStart(t, Primary, FALSE)
    \/ \E t \in Tasks : SemGranted(t)
    \/ \E t \in Tasks, r \in GateResults \cup {ProviderGet(o) : o \in TransportOutcomes} :
          CallReturns(t, r, TRUE)
    \/ \E t \in Tasks : BackoffDone(t)
    \/ \E t \in Tasks : Cancel(t)
    \/ SetLimit(Secondary, limits[Secondary] + 1)

SpecGate == Init /\ [][NextGate]_vars

\* Guarded scopes of one provider whose limit is changed while they wait and
\* hold, with cancellations.
NextLimit ==
    \/ \E t \in Tasks : ScopesStarted < MaxScopes /\ ScopedStart(t, Secondary)
    \/ \E t \in Tasks : SemGranted(t)
    \/ \E t \in Tasks, r \in GateResults : CallReturns(t, r, TRUE)
    \/ \E t \in Tasks : BackoffDone(t)
    \/ \E t \in Tasks : Cancel(t)
    \/ SetLimit(Secondary, limits[Secondary] + 1)

\* The event loop runs every task that can run: a waiter whose semaphore has
\* a slot is woken, a call returns, a backoff sleep ends.
SpecLimit ==
    /\ Init /\ [][NextLimit]_vars
    /\ \A t \in Tasks :
          /\ WF_vars(SemGranted(t))
          /\ WF_vars(\E r \in GateResults : CallReturns(t, r, TRUE))
          /\ WF_vars(BackoffDone(t))

\* Guarded scopes around retry_handler.execute(op), for every way op may end.
NextRetry ==
    \/ \E t \in Tasks : ScopesStarted < MaxScopes /\ ScopedStart(t, Secondary)
    \/ \E t \in Tasks : SemGranted(t)
    \/ \E t \in Tasks, r \in ScopedResults : CallReturns(t, r, TRUE)
    \/ \E t \in Tasks : BackoffDone(t)

SpecRetry == Init /\ [][NextRetry]_vars

\* One key's file under concurrent cache.set calls, readers and deletes.
NextCache ==
    \/ \E t \in Tasks, d \in SetValues : SetBegin(t, Primary, d)
    \/ \E t \in Tasks : SetStep(t)
    \/ \E t \in Tasks : SetFails(t)
    \/ \E t \in Tasks : SetFailsEarly(t, Primary, "p1")
    \/ CacheRead(Primary)
    \/ CacheDelete(Primary)

SpecCache == Init /\ [][NextCache]_vars

\* Two providers side by side: uncached fetches of both, and on the breaker
\* and gate of the one with a single slot the direct calls of their API.
NextIsolation ==
    \/ \E t \in Tasks, p \in Providers :
          lstats.total_requests < MaxFetches /\ FetchStart(t, p, FALSE)
    \/ \E t \in Tasks : SemGranted(t)
    \/ \E t \in Tasks, o \in TransportOutcomes : CallReturns(t, ProviderGet(o), TRUE)
    \/ breakers[Secondary].state # OPEN /\ DirectRecordFailure(Secondary)
    \/ breakers[Secondary].state = OPEN /\ Reset(Secondary)
    \/ SetLimit(Secondary, limits[Secondary] + 1)

SpecIsolation == Init /\ [][NextIsolation]_vars

\* Readers, cached fetches and sweeps of keys whose files may hold anything.
NextMalformed ==
    \/ \E form \in MalformedForms \cup {"entry"} : CorruptFile(Secondary, form)
    \/ \E form \in {"entry", "not_object"} : CorruptFile(Primary, form)
    \/ \E arg \in Providers \cup {"all"} : ClearExpired(arg)
    \/ Tick
    \/ CacheRead(Secondary)
    \/ \E t \in Tasks : lstats.total_requests < MaxFetches /\ FetchStart(t, Secondary, TRUE)
    \/ \E t \in Tasks : SemGranted(t)
    \/ \E t \in Tasks, o \in TransportOutcomes : CallReturns(t, ProviderGet(o), TRUE)

SpecMalformed == Init /\ [][NextMalformed]_vars

\* The loader under concurrent fetches of the provider with a single slot, mode switches, the passing of time and
\* failures recorded on the breaker by other users of the manager.
\* One thread drives a monitor of its own with requests of the first provider.
NextHealth ==
    \/ \E success \in BOOLEAN :
          /\ Len(monitor.recorded[Primary]) < MaxRecords
          /\ HealthRecordRequest(Primary, success)
    \/ HealthGetMetrics(Primary)
    \/ \E arg \in {Primary, "all"} : HealthReset(arg)

SpecHealth == Init /\ [][NextHealth]_vars

\* One thread records requests under several names and asks for the report:
\* any outcome for the first provider, successes for the second, failures
\* under a name that is not built in.
NextReport ==
    \/ \E success \in BOOLEAN :
          /\ Len(monitor.recorded[Primary]) < MinRequestsForStatus
          /\ HealthRecordRequest(Primary, success)
    \/ /\ Len(monitor.recorded[Secondary]) < MinRequestsForStatus
       /\ HealthRecordRequest(Secondary, TRUE)
    \/ /\ Len(monitor.recorded["custom"]) < MinRequestsForStatus
       /\ HealthRecordRequest("custom", FALSE)
    \/ HealthReport

SpecReport == Init /\ [][NextReport]_vars

\* Threads record requests of the first provider and read its metrics, each
\* one statement at a time; a reset may come between any two statements that
\* the lock lets it come between.
NextThreads ==
    \/ \E t \in Tasks, success \in BOOLEAN :
          /\ Len(monitor.recorded[Primary]) < MaxThreadRecords
          /\ ThreadRecordCall(t, Primary, success)
    \/ \E t \in Tasks : ThreadMetricsCall(t, Primary)
    \/ \E t \in Tasks : LockAcquire(t)
    \/ \E t \in Tasks : RecordStep(t)
    \/ \E t \in Tasks : MetricsStep(t)
    \/ HealthReset(Primary)

SpecThreads == Init /\ [][NextThreads]_vars

\* Tasks share one retry handler and call execute on it directly, for every
\* way the wrapped function may end.
NextStats ==
    \/ \E t \in Tasks : rstats.calls < MaxExecutes /\ ExecuteCall(t)
    \/ \E t \in Tasks, r \in ScopedResults : ExecuteAttemptEnds(t, r)
    \/ \E t \in Tasks : ExecuteSleepEnds(t)

SpecStats == Init /\ [][NextStats]_vars

Next ==
    \/ \E t \in Tasks, p \in FetchNames, uc \in BOOLEAN :
          lstats.total_requests < MaxFetches /\ FetchStart(t, p, uc)
    \/ \E t \in Tasks : SemGranted(t)
    \/ \E t \in Tasks, o \in TransportOutcomes, stored \in BOOLEAN :
          CallReturns(t, ProviderGet(o), stored)
    \/ \E m \in {LIVE, READ_ONLY} : SetOperatingMode(m)
    \/ breakers[Secondary].state # OPEN /\ DirectRecordFailure(Secondary)
    \/ Tick

Spec == Init /\ [][Next]_vars

\* Cached and uncached fetches of a provider whose transport may also answer
\* 2xx with an error envelope.
NextEnvelope ==
    \/ \E t \in Tasks, uc \in BOOLEAN :
          lstats.total_requests < MaxFetches /\ FetchStart(t, Secondary, uc)
    \/ \E t \in Tasks : SemGranted(t)
    \/ \E t \in Tasks, o \in ProviderOutcomes : CallReturns(t, ProviderGet(o), TRUE)
    \/ Tick

SpecEnvelope == Init /\ [][NextEnvelope]_vars

\* Fetches that are started in a run that is followed to its end: as many as
\* there are tasks, so that all of them can be under way at once.
FetchesToFinish == NumTasks

\* How a transport call of such a run ends: with a payload or with an HttpError.
TerminationOutcomes ==
    {o \in TransportOutcomes : o.body = "p1" \/ o.error = "ServerError"}

\* Uncached fetches of both providers through the shared router, the limit of
\* the provider with a single slot being raised meanwhile.
NextTermination ==
    \/ \E t \in Tasks, p \in Providers :
          lstats.total_requests < FetchesToFinish /\ FetchStart(t, p, FALSE)
    \/ \E t \in Tasks : SemGranted(t)
    \/ \E t \in Tasks, o \in TerminationOutcomes : CallReturns(t, ProviderGet(o), TRUE)
    \/ SetLimit(Secondary, limits[Secondary] + 1)

\* The event loop runs every task that can run: a waiter whose semaphore has a
\* slot is woken, and every transport call returns.
SpecTermination ==
    /\ Init /\ [][NextTermination]_vars
    /\ \A t \in Tasks :
          /\ WF_vars(SemGranted(t))
          /\ WF_vars(\E o \in TerminationOutcomes : CallReturns(t, ProviderGet(o), TRUE))

\* Failures are still being recorded: the latest of them leaves the clock room
\* to reach the recovery timeout.
FailingPhase == now + RecoveryTimeout <= MaxClock

\* Fetches that arrive in a run of a recovering provider: the probes that close a
\* Half-Open breaker and one that may be rejected or come late.
RecoveryFetches == HalfOpenMaxRequests + 1

\* Fetches that can still arrive.
RemainingFetches == RecoveryFetches - lstats.total_requests

\* What the transport answers: anything while the provider is failing, a payload
\* on every call afterwards.
RecoveryOutcomes ==
    IF FailingPhase THEN TransportOutcomes
    ELSE {o \in TransportOutcomes : o.status = "ok"}

\* A provider that fails for a while and then succeeds on every call, under
\* uncached fetches that keep arriving while the clock advances.
NextRecovery ==
    \/ \E t \in Tasks : RemainingFetches > 0 /\ FetchStart(t, Secondary, FALSE)
    \/ \E t \in Tasks : SemGranted(t)
    \/ \E t \in Tasks, o \in RecoveryOutcomes : CallReturns(t, ProviderGet(o), FALSE)
    \/ FailingPhase /\ DirectRecordFailure(Secondary)
    \/ Tick

\* The clock advances, fetches arrive while any can, and the event loop runs
\* every task that can run: a waiter is woken, a transport call returns.
SpecRecovery ==
    /\ Init
    /\ [][NextRecovery]_vars
    /\ WF_vars(Tick)
    /\ WF_vars(\E t \in Tasks : RemainingFetches > 0 /\ FetchStart(t, Secondary, FALSE))
    /\ \A t \in Tasks :
          /\ WF_vars(SemGranted(t))
          /\ WF_vars(\E o \in RecoveryOutcomes : CallReturns(t, ProviderGet(o), FALSE))

(***************************************************************************)
(* Properties of the QoS router                                            *)
(***************************************************************************)
\* Tasks inside a guarded scope of provider p, holding a slot of its semaphore g.
HoldersOf(p, g) ==
    {t \in Tasks : /\ tasks[t].pc \in {"call", "backoff"}
                   /\ tasks[t].provider = p
                   /\ tasks[t].sem = g}

Holders(p) == UNION {HoldersOf(p, g) : g \in 1..Len(sems[p])}

WaitersOf(p) == {t \in Tasks : tasks[t].pc = "wait_sem" /\ tasks[t].provider = p}

\* set_limit was never called for p.
LimitUnchanged(p) == Len(sems[p]) = 1

\* C1: for a provider whose limit is never changed, the number of callers holding
\* a slot at the same time, the active count and the recorded peak concurrency
\* never exceed the provider's maximum concurrency.
C1_PeakWithinLimit ==
    \A p \in Providers :
        LimitUnchanged(p) =>
            /\ Cardinality(Holders(p)) <= limits[p]
            /\ qstats[p].active_requests <= limits[p]
            /\ qstats[p].max_concurrent_seen <= limits[p]

\* The gate of the primary provider is full, its peak equals its limit, and a
\* further fetch is waiting for a slot.
C1_Witness ==
    /\ LimitUnchanged(Primary)
    /\ Cardinality(Holders(Primary)) = limits[Primary]
    /\ qstats[Primary].max_concurrent_seen = limits[Primary]
    /\ WaitersOf(Primary) # {}

\* The value a provider's semaphore g was created with, for the first and the
\* current semaphore.
FullValue(p, g) == IF g = Len(sems[p]) THEN limits[p] ELSE InitialLimit(p)

\* C2: when a guarded scope exits, by return, by a raised or propagated error or
\* by cancellation, exactly one slot of the semaphore it acquired is released
\* and the active count drops by one; once no scope is open or waiting, the
\* active count is 0 and all slots are available again.
C2_ReleaseExactlyOne ==
    [][\A t \in Tasks :
          (tasks[t].pc \in {"call", "backoff"} /\ tasks'[t].pc = "idle") =>
              LET p == tasks[t].provider
                  g == tasks[t].sem
              IN  /\ sems' = [sems EXCEPT ![p][g] = @ + 1]
                  /\ qstats' = [qstats EXCEPT ![p].active_requests = @ - 1]
                  /\ qstats[p].active_requests >= 1
                  /\ (\A u \in Tasks : tasks'[u].pc = "idle") =>
                        \A q \in Providers :
                            /\ qstats'[q].active_requests = 0
                            /\ sems'[q][1] = FullValue(q, 1)
                            /\ sems'[q][Len(sems'[q])] = FullValue(q, Len(sems'[q]))
      ]_vars

\* A scope has just ended with an error after using a slot, and the gate it
\* used is completely free again.
C2_Witness ==
    /\ lastResp.result \in {"raised", "retry_error", "cancelled"}
    /\ \A u \in Tasks : tasks[u].pc = "idle"
    /\ qstats[lastResp.provider].total_requests > 0
    /\ qstats[lastResp.provider].active_requests = 0
    /\ sems[lastResp.provider][1] = InitialLimit(lastResp.provider)

\* C3: from the acquisition of its slot until the retry loop has finished, a
\* task keeps the slot of the same semaphore: going to sleep between attempts
\* and waking up for the next attempt neither release nor re-acquire anything.
C3_SlotHeldThroughRetries ==
    [][\A t \in Tasks :
          (/\ tasks[t].pc \in {"call", "backoff"}
           /\ tasks'[t].pc \in {"call", "backoff"}) =>
              /\ tasks'[t].provider = tasks[t].provider
              /\ tasks'[t].sem = tasks[t].sem
              /\ tasks'[t].kind = tasks[t].kind
              /\ tasks'[t] # tasks[t] => (sems' = sems /\ qstats' = qstats)
      ]_vars

\* A task sleeps between two attempts while it holds the only slot of its
\* semaphore, and another task is waiting for that slot.
C3_Witness ==
    \E t \in Tasks, u \in Tasks :
        /\ tasks[t].pc = "backoff"
        /\ tasks[u].pc = "wait_sem"
        /\ tasks[u].provider = tasks[t].provider
        /\ tasks[u].sem = tasks[t].sem
        /\ sems[tasks[t].provider][tasks[t].sem] = 0

(***************************************************************************)
(* Properties of the circuit breaker                                       *)
(***************************************************************************)
QueryOps == {"can_execute", "state", "get_stats"}

FailuresIn(q) == Cardinality({i \in 1..Len(q) : q[i] = FALSE})

\* The window holds at least min_requests outcomes and failures / length >= error_threshold.
TripCondition(q) ==
    /\ Len(q) >= MinRequests
    /\ FailuresIn(q) * ErrorThresholdDen >= ErrorThresholdNum * Len(q)

AllowedTransition(p) ==
    LET b == breakers[p]
        b2 == breakers'[p]
    IN  b.state # b2.state =>
          \/ /\ b.state = CLOSED /\ b2.state = OPEN
             /\ lastOp' = Op("record_failure", p, TRUE)
             /\ TripCondition(b2.requests)
          \/ /\ b.state = OPEN /\ b2.state = HALF_OPEN
             /\ lastOp'.op \in QueryOps /\ lastOp'.p = p
             /\ b.last_failure_time # NoTime
             /\ now - b.last_failure_time >= RecoveryTimeout
          \/ /\ b.state = HALF_OPEN /\ b2.state = CLOSED
             /\ lastOp' = Op("record_success", p, TRUE)
             /\ b.consecutive_successes = HalfOpenMaxRequests - 1
          \/ /\ b.state = HALF_OPEN /\ b2.state = OPEN
             /\ lastOp' = Op("record_failure", p, TRUE)
          \/ /\ b2.state = CLOSED
             /\ lastOp' \in {Op("reset", p, TRUE), Op("reset_all", "fmp", TRUE)}

\* C4: every change of a breaker's state is Closed to Open (on a recorded failure with
\* at least min_requests entries in the window and error rate at or above the
\* threshold), Open to Half-Open (on a query made recovery_timeout or more after the
\* last failure), Half-Open to Closed (on the half_open_max_requests-th consecutive
\* success), Half-Open to Open (on a failure) or any state to Closed by reset.
C4_TransitionTable == [][\A p \in Providers : AllowedTransition(p)]_vars

\* A breaker that went from Half-Open back to Open after one successful probe.
C4_Witness ==
    /\ breakers[Primary].state = OPEN
    /\ breakers[Primary].half_open_requests = 1
    /\ lastOp = Op("record_failure", Primary, TRUE)

C6_HalfOpenRecovery ==
    [][\A p \in Providers :
          LET b == breakers[p]
              b2 == breakers'[p]
          IN  /\ (b.state # HALF_OPEN /\ b2.state = HALF_OPEN) =>
                    b2.consecutive_successes = 0
              /\ (b.state = HALF_OPEN /\ lastOp' = Op("record_success", p, TRUE)) =>
                    /\ b.consecutive_successes < HalfOpenMaxRequests
                    /\ b2.consecutive_successes = b.consecutive_successes + 1
                    /\ b2.state = IF b2.consecutive_successes = HalfOpenMaxRequests
                                  THEN CLOSED ELSE HALF_OPEN
              /\ (b.state = HALF_OPEN /\ lastOp' = Op("record_failure", p, TRUE)) =>
                    b2.state = OPEN
              /\ (b.state = HALF_OPEN /\ lastOp'.op \notin {"record_success", "record_failure"}
                    /\ b2.state = HALF_OPEN) =>
                    b2.consecutive_successes = b.consecutive_successes]_vars

\* A breaker that has just closed on its half_open_max_requests-th successful probe.
C6_Witness ==
    /\ breakers[Primary].state = CLOSED
    /\ breakers[Primary].half_open_requests = HalfOpenMaxRequests
    /\ breakers[Primary].consecutive_successes = HalfOpenMaxRequests
    /\ lastOp = Op("record_success", Primary, TRUE)

\* Callers admitted while the breaker was Half-Open whose outcome is not yet recorded.
Probes(p) ==
    {t \in Tasks : /\ tasks[t].pc = "admitted"
                   /\ tasks[t].provider = p
                   /\ tasks[t].admitted_in = HALF_OPEN}

\* C7: while a breaker is Half-Open, the number of callers admitted and not yet
\* recorded never exceeds half_open_max_requests.
C7_ProbesBounded ==
    \A p \in Providers :
        breakers[p].state = HALF_OPEN => Cardinality(Probes(p)) <= HalfOpenMaxRequests

\* C8: an Open breaker rejects every can_execute made before recovery_timeout has
\* elapsed since the last recorded failure; it becomes Half-Open only in a
\* can_execute / state / stats query made at or after that time, never when only the
\* clock advances, and that query already observes Half-Open and admits the call.
C8_LazyHalfOpen ==
    [][\A p \in Providers :
          LET b == breakers[p]
              b2 == breakers'[p]
              elapsed == now - b.last_failure_time
              queried == lastOp'.op \in QueryOps /\ lastOp'.p = p
          IN  /\ (queried /\ b.state = OPEN /\ elapsed < RecoveryTimeout) =>
                    /\ b2.state = OPEN
                    /\ lastOp'.op = "can_execute" => ~lastOp'.res
              /\ (queried /\ b.state = OPEN /\ elapsed >= RecoveryTimeout) =>
                    /\ b2.state = HALF_OPEN
                    /\ lastOp'.op = "can_execute" => lastOp'.res
              /\ (b.state = OPEN /\ b2.state = HALF_OPEN) =>
                    queried /\ elapsed >= RecoveryTimeout
              /\ now' # now => breakers' = breakers]_vars

\* A can_execute that found the recovery timeout elapsed and admitted the call.
C8_Witness ==
    /\ breakers[Primary].state = HALF_OPEN
    /\ breakers[Primary].half_open_requests = 0
    /\ now - breakers[Primary].last_failure_time >= RecoveryTimeout
    /\ lastOp = Op("can_execute", Primary, TRUE)

\* C9: reset leaves the breaker exactly as a freshly created one (Closed, empty
\* window, no last-failure time, zero counters) and changes no other provider's breaker.
C9_ResetIsFresh ==
    [][\A p \in Providers :
          lastOp' = Op("reset", p, TRUE) =>
             /\ breakers[p].created =>
                   breakers'[p] = [created |-> TRUE, state |-> CLOSED, requests |-> <<>>,
                                   last_failure_time |-> NoTime,
                                   consecutive_successes |-> 0, half_open_requests |-> 0,
                                   recovered |-> FALSE]
             /\ ~breakers[p].created => breakers'[p] = breakers[p]
             /\ \A q \in Providers \ {p} : breakers'[q] = breakers[q]]_vars

\* The first provider's breaker has just been reset while the second one's is Open.
C9_Witness ==
    /\ lastOp = Op("reset", Primary, TRUE)
    /\ breakers[Primary].created
    /\ breakers[Secondary].state = OPEN

(***************************************************************************)
(* Properties of the loader                                                *)
(***************************************************************************)
\* This step is the start of a fetch by task t for provider name p with use_cache = uc.
FetchStarted(t, p, uc) ==
    /\ tasks[t].pc = "idle"
    /\ lstats'.total_requests = lstats.total_requests + 1
    /\ \/ /\ lastResp'.task = t
          /\ lastResp'.kind = "fetch"
          /\ lastResp'.provider = p
          /\ lastResp'.use_cache = uc
       \/ /\ tasks'[t].pc # "idle"
          /\ tasks'[t].kind = "fetch"
          /\ tasks'[t].provider = p
          /\ tasks'[t].use_cache = uc

\* The cache holds an entry for p that is younger than the TTL.
FreshEntry(p) == cache[p].present /\ now - cache[p].timestamp < TtlTicks

\* C10: a fetch with use_cache = true that finds a fresh entry returns the
\* entry's data as a cache hit in every operating mode and breaker state; on
\* that path no breaker is consulted, no slot is acquired, no transport call is
\* made and no breaker, gate or cache state changes.
C10_CacheHitBypasses ==
    [][\A t \in Tasks, p \in Providers :
          (FetchStarted(t, p, TRUE) /\ FreshEntry(p)) =>
              /\ lastResp' = Resp(t, "fetch", p, TRUE, "hit", cache[p].data)
              /\ lastOp' = NoOp
              /\ lstats' = [lstats EXCEPT !.total_requests = @ + 1, !.cache_hits = @ + 1]
              /\ UNCHANGED <<now, breakers, tasks, mode, cache, tempfiles, limits, sems, qstats, health, monitor, rstats>>
      ]_vars

\* A fetch has just been served from the cache in read-only mode while the
\* provider's breaker is open.
C10_Witness ==
    /\ lastResp.result = "hit"
    /\ lastResp.provider = Secondary
    /\ mode = READ_ONLY
    /\ breakers[Secondary].state = OPEN

\* The cache cannot serve a fetch of p: the cache is not to be used, it holds no
\* entry for p, or the entry is older than the TTL.
NotServable(p, uc) ==
    \/ ~uc
    \/ ~cache[p].present
    \/ now - cache[p].timestamp > TtlTicks

C12_RejectionChangesNothing ==
    [][\A t \in Tasks, p \in Providers, uc \in BOOLEAN :
          (FetchStarted(t, p, uc) /\ lastResp'.result = "circuit_open") =>
              /\ lstats'.circuit_breaker_rejections = lstats.circuit_breaker_rejections + 1
              /\ lstats'.api_calls = lstats.api_calls
              /\ lastResp'.data = breakers'[p].state
              /\ breakers'[p].requests = breakers[p].requests
              /\ breakers'[p].last_failure_time = breakers[p].last_failure_time
              /\ breakers'[p].state = breakers[p].state
              /\ \A q \in Providers \ {p} : breakers'[q] = breakers[q]
              /\ UNCHANGED <<tasks, mode, cache, tempfiles, limits, sems, qstats, health, monitor, rstats>>
      ]_vars

\* Task t's fetch of provider p reached the transport and ends in this step.
FetchEnds(t, p) ==
    /\ tasks[t].pc = "call"
    /\ tasks[t].kind = "fetch"
    /\ tasks[t].provider = p
    /\ tasks'[t].pc = "idle"
    /\ lastResp'.task = t
    /\ lastResp'.result # "cancelled"

\* C13: a fetch whose transport call ended in an HTTP error (a 5xx, or a 404)
\* records exactly one failure and no success on the provider's breaker: the
\* breaker operation of the step is record_failure and the window gains one
\* failed outcome.
C13_TransportErrorRecordsFailure ==
    [][\A t \in Tasks, p \in Providers :
          (FetchEnds(t, p) /\ lastResp'.error \in HttpErrors) =>
              /\ lastOp' = Op("record_failure", p, TRUE)
              /\ breakers'[p].requests = DequeAppend(GetBreaker(breakers, p, now).requests, FALSE)
      ]_vars

\* C14: within one fetch a transport call that fails with a retryable error is
\* retried up to max_retries times: a fetch ends with a retryable transport
\* error only after max_retries + 1 transport calls, and a fetch that returns a
\* success response adds one success and no failure to the health monitor.
C14_RetryableErrorIsRetried ==
    [][\A t \in Tasks, p \in Providers :
          FetchEnds(t, p) =>
              /\ (lastResp'.error \in HttpErrors /\ IsExceptionRetryable(lastResp'.error))
                     => Len(lastResp'.outcomes) = MaxRetries + 1
              /\ lastResp'.result = "ok"
                     => /\ health'[p].success = health[p].success + 1
                        /\ health'[p].failed = health[p].failed
      ]_vars

\* No fetch is in flight: every fetch that was started has returned or raised.
NoFetchInFlight == \A t \in Tasks : tasks[t].kind # "fetch"

\* C15: whenever every started fetch has completed, whatever the mix of
\* use_cache values, provider names and outcomes, the loader's counters satisfy
\* total_requests = cache_hits + cache_misses.
C15_RequestsAreHitsPlusMisses ==
    NoFetchInFlight => lstats.total_requests = lstats.cache_hits + lstats.cache_misses

RetryableError(o) ==
    /\ o \in Exceptions
    /\ IsInstance(o, RetryableExceptions)
    /\ StatusCode(o) \notin {400, 401, 403, 404}

\* The invocations of q before its last one.
Earlier(q) == 1 .. (Len(q) - 1)

\* retry_handler.execute has just ended in a guarded scope.
ExecuteEnded == lastResp.kind = "scoped" /\ lastResp.result # "cancelled"

\* C17: one call of execute invokes the operation at most max_retries + 1
\* times; every invocation that was followed by another one failed with a
\* retryable error, so the operation is never invoked again after a success
\* (nor after a non-retryable error), and max_retries + 1 invocations are made
\* only when each of the first max_retries failed with a retryable error.
C17_AtMostMaxRetriesPlusOne ==
    /\ \A t \in Tasks :
          tasks[t].kind = "scoped" =>
              /\ Len(tasks[t].outcomes) <= MaxRetries
              /\ \A i \in 1 .. Len(tasks[t].outcomes) : RetryableError(tasks[t].outcomes[i])
    /\ ExecuteEnded =>
          /\ Len(lastResp.outcomes) <= MaxRetries + 1
          /\ \A i \in Earlier(lastResp.outcomes) : RetryableError(lastResp.outcomes[i])

\* C17 as stated: max_retries + 1 invocations are made only when every one of
\* them, the last included, failed with a retryable error.
C17_FullCountOnlyWhenAllFailed ==
    (ExecuteEnded /\ Len(lastResp.outcomes) = MaxRetries + 1) =>
        \A i \in 1 .. Len(lastResp.outcomes) : RetryableError(lastResp.outcomes[i])

\* execute has returned the value of its last allowed attempt, made after
\* max_retries retryable failures.
C17_Witness ==
    /\ ExecuteEnded
    /\ lastResp.result = "value"
    /\ Len(lastResp.outcomes) = MaxRetries + 1

\* The last element of a non-empty sequence.
Last(q) == q[Len(q)]

\* An exception the handler is not to retry: it carries a non-retryable status
\* code or its type is outside the configured retryable types.
NonRetryableError(o) == o \in Exceptions /\ ~RetryableError(o)

\* C18: an attempt that fails with a non-retryable error (a status of 400,
\* 401, 403 or 404, or a type outside the configured retryable types) is the
\* last one: no task sleeps or calls again after it, and execute raises that
\* very error, not RetryError.
C18_NonRetryablePropagates ==
    /\ \A t \in Tasks :
          tasks[t].kind = "scoped" =>
              \A i \in 1 .. Len(tasks[t].outcomes) : ~NonRetryableError(tasks[t].outcomes[i])
    /\ (ExecuteEnded /\ NonRetryableError(Last(lastResp.outcomes))) =>
          /\ lastResp.result = "raised"
          /\ lastResp.error = Last(lastResp.outcomes)
          /\ lastResp.attempts = 0

\* The first attempt failed with a 404 and execute raised it after that one attempt.
C18_Witness ==
    /\ ExecuteEnded
    /\ lastResp.outcomes = <<"ClientError">>
    /\ lastResp.result = "raised"

\* C19: when all max_retries + 1 attempts failed with retryable errors, execute
\* raises RetryError whose last_exception is the error of the final attempt and
\* whose attempts field is max_retries + 1, the number of attempts made; and
\* RetryError is raised in no other case.
C19_ExhaustionCarriesLastError ==
    ExecuteEnded =>
        /\ (/\ Len(lastResp.outcomes) = MaxRetries + 1
            /\ \A i \in 1 .. Len(lastResp.outcomes) : RetryableError(lastResp.outcomes[i]))
               => /\ lastResp.result = "retry_error"
                  /\ lastResp.error = Last(lastResp.outcomes)
                  /\ lastResp.attempts = MaxRetries + 1
        /\ lastResp.result = "retry_error"
               => /\ lastResp.attempts = Len(lastResp.outcomes)
                  /\ \A i \in 1 .. Len(lastResp.outcomes) : RetryableError(lastResp.outcomes[i])

\* execute raised RetryError after attempts that failed with different errors.
C19_Witness ==
    /\ ExecuteEnded
    /\ lastResp.result = "retry_error"
    /\ lastResp.outcomes[1] # Last(lastResp.outcomes)

(***************************************************************************)
(* The cache's files                                                       *)
(***************************************************************************)
\* The whole text of an entry is in the file.
CompleteEntry(f) == f.present /\ f.written = EntryChunks

\* C20: under every interleaving of cache.set calls on a key with readers of
\* that key, the file under the key's path is at every step absent or a
\* complete entry; when it changes it becomes absent or the complete entry of
\* a set that was running; no reader finds a truncated entry there.
C20_NoTruncatedEntryVisible ==
    /\ [](/\ \A p \in Providers : ~cache[p].present \/ CompleteEntry(cache[p])
          /\ lastResp.kind = "read" => lastResp.result # "JSONDecodeError")
    /\ [][\A p \in Providers :
             cache'[p] # cache[p] =>
                 \/ cache'[p] = NoEntry
                 \/ \E t \in Tasks :
                       /\ tasks[t].pc = "write"
                       /\ tasks[t].provider = p
                       /\ cache'[p] = CacheSet(tempfiles[t].data, tempfiles[t].timestamp)
         ]_vars

\* A reader has just found the complete prior entry while a set of another
\* payload for the same key has written a part of its temp file.
C20_Witness ==
    /\ lastResp.kind = "read"
    /\ lastResp.result = "hit"
    /\ \E t \in Tasks :
          /\ tasks[t].pc = "write"
          /\ tasks[t].provider = lastResp.provider
          /\ tempfiles[t].written = 1
          /\ tempfiles[t].data # lastResp.data

\* A cache.set of task t has returned in the last step.
SetReturned(t, result) ==
    /\ lastResp.kind = "set"
    /\ lastResp.task = t
    /\ lastResp.result = result

AgedOut(p) == cache[p].present /\ now - cache[p].timestamp >= TtlTicks

\* C23: an entry whose age is greater than or equal to its TTL, the age equal
\* to the TTL included, is expired: a fetch with use_cache = true does not
\* serve it as a cache hit.
C23_ExpiredAtTtl ==
    [][\A t \in Tasks, p \in Providers :
          (FetchStarted(t, p, TRUE) /\ AgedOut(p)) => lastResp'.result # "hit"
      ]_vars

\* C24: whatever the file under a key holds, cache.get returns None for a
\* file that is no well-formed entry and never raises, and a fetch with
\* use_cache = true that meets such a file goes on as after a cache miss.
C24_MalformedIsAMiss ==
    lastResp.kind \in {"read", "fetch"} => lastResp.result # "raised"

\* The directories a clear_expired call with argument arg covers.
Covered(arg) == IF arg = "all" THEN Providers ELSE {arg}

\* The file of p is a well-formed entry that has not expired.
FreshAndWellFormed(p) ==
    /\ cache[p].present
    /\ cache[p].form = "entry"
    /\ cache[p].written = EntryChunks
    /\ ~IsExpired(cache[p], now)

\* C25: clear_expired never raises, whatever the files hold; when it returns,
\* every covered file that was fresh and well-formed is unchanged, every other
\* covered file is gone, files it does not cover are untouched, and the count
\* it returns is the number of files it deleted.
C25_ClearExpiredSweeps ==
    [][lastResp'.kind = "clear_expired" =>
          /\ lastResp'.result = "returned"
          /\ \A p \in Covered(lastResp'.provider) :
                cache'[p] = IF FreshAndWellFormed(p) THEN cache[p] ELSE NoEntry
          /\ \A p \in Providers \ Covered(lastResp'.provider) : cache'[p] = cache[p]
          /\ lastResp'.count = Cardinality({p \in Providers : cache[p].present /\ ~cache'[p].present})
      ]_vars

(***************************************************************************)
(* Isolation of providers                                                  *)
(***************************************************************************)
\* The step is an operation on provider q: a breaker call naming q, a step of
\* a fetch of q, or set_limit(q, n) giving q a new semaphore.
StepOn(q) ==
    \/ lastOp'.op # "none" /\ lastOp'.p = q
    \/ lastResp'.kind = "fetch" /\ lastResp'.provider = q
    \/ \E t \in Tasks :
          /\ tasks'[t] # tasks[t]
          /\ \/ tasks[t].pc # "idle" /\ tasks[t].provider = q
             \/ tasks'[t].pc # "idle" /\ tasks'[t].provider = q
    \/ Len(sems'[q]) # Len(sems[q])

\* C26: a step that is no operation on q (a fetch, recorded outcome, reset or
\* limit change on another provider) leaves q's breaker, q's gate slots, limit
\* and statistics and q's health counters unchanged; and a fetch of q that
\* finds q's own breaker not Open and a slot of q free is admitted at once,
\* whatever the state of the other breakers and gates.
C26_ProvidersIsolated ==
    [][\A q \in Providers :
          /\ ~StepOn(q) =>
                /\ breakers'[q] = breakers[q]
                /\ sems'[q] = sems[q]
                /\ limits'[q] = limits[q]
                /\ qstats'[q] = qstats[q]
                /\ health'[q] = health[q]
          /\ \A t \in Tasks :
                (/\ FetchStarted(t, q, FALSE)
                 /\ breakers[q].state # OPEN
                 /\ SemAvailable(sems, q, GetSemaphore(sems, q)))
                    => tasks'[t].pc = "call" /\ tasks'[t].provider = q
      ]_vars

\* A fetch of the first provider is in its transport call while the second
\* provider's breaker is Open and every slot of the second provider is taken.
C26_Witness ==
    /\ breakers[Secondary].state = OPEN
    /\ ~SemAvailable(sems, Secondary, GetSemaphore(sems, Secondary))
    /\ \E t \in Tasks : tasks[t].pc = "call" /\ tasks[t].provider = Primary
    /\ breakers[Primary].state = CLOSED

\* C27: a fetch cancelled while it waits for a slot, during its transport call
\* or during a backoff sleep gives back the slot it holds exactly once (the
\* semaphore it entered gains one slot and one request fewer is active), changes
\* nothing of the gate when it held no slot yet, and records neither a success
\* nor a failure on any breaker, in the health registry or in the loader's counters.
C27_CancelReleasesOnceRecordsNothing ==
    [][\A t \in Tasks :
          (/\ tasks[t].kind = "fetch"
           /\ tasks[t].pc # "idle"
           /\ lastResp'.result = "cancelled"
           /\ lastResp'.task = t)
          => LET p == tasks[t].provider
                 g == tasks[t].sem
             IN  /\ tasks'[t].pc = "idle"
                 /\ breakers' = breakers
                 /\ health' = health
                 /\ lstats' = lstats
                 /\ lastOp' = NoOp
                 /\ IF tasks[t].pc = "wait_sem"
                    THEN sems' = sems /\ qstats' = qstats
                    ELSE /\ sems' = SemRelease(sems, p, g)
                         /\ qstats'[p].active_requests = qstats[p].active_requests - 1
                         /\ qstats'[p].total_requests = qstats[p].total_requests]_vars

\* One fetch took the only slot taken so far, was cancelled in its call, and
\* left the slot free, no request active and no outcome anywhere.
C27_Witness ==
    /\ lastResp.result = "cancelled"
    /\ lastResp.kind = "fetch"
    /\ qstats[Primary].total_requests = 1
    /\ qstats[Primary].active_requests = 0
    /\ lstats.api_calls = 1
    /\ lstats.api_successes = 0
    /\ lstats.api_failures = 0
    /\ health[Primary].total = 0
    /\ \A t \in Tasks : tasks[t].pc = "idle"

\* A fetch was cancelled while it waited for a slot that another fetch holds.
C27_WaiterWitness ==
    /\ lastResp.result = "cancelled"
    /\ lastResp.kind = "fetch"
    /\ qstats[Primary].active_requests = FmpLimit
    /\ qstats[Primary].total_requests = FmpLimit
    /\ lstats.total_requests = FmpLimit + 1

\* The status the specification gives a provider whose outcomes since the last
\* reset are log, oldest first: the rate is taken over the last windowSize of them.
StatusOf(log) ==
    LET n == Len(log)
        first == IF n > HealthWindowSize THEN n - HealthWindowSize + 1 ELSE 1
        recent == SubSeq(log, first, n)
        f == Cardinality({i \in 1 .. Len(recent) : ~recent[i]})
        k == Len(recent)
    IN  IF n < MinRequestsForStatus THEN UNKNOWN
        ELSE IF 5 * f >= k THEN UNHEALTHY
        ELSE IF 10 * f >= k THEN DEGRADED
        ELSE HEALTHY

\* C28: the status a metrics read returns is Unknown exactly when fewer than
\* minRequestsForStatus requests were recorded since the last reset; otherwise
\* it is Unhealthy for a rate of at least 0.20, Degraded for a rate of at least
\* 0.10 and below 0.20, Healthy below 0.10, the rate being that of the most
\* recent windowSize outcomes.
C28_StatusFromRollingRate ==
    lastResp.kind = "metrics"
    => LET log == monitor.recorded[lastResp.provider]
       IN  /\ lastResp.result = StatusOf(log)
           /\ (lastResp.result = UNKNOWN) <=> (Len(log) < MinRequestsForStatus)

\* More requests than the window holds were recorded, two of them failures of
\* which the older has left the window: one failure in ten reads as Degraded.
C28_Witness ==
    /\ lastResp.kind = "metrics"
    /\ lastResp.result = DEGRADED
    /\ Len(monitor.recorded[Primary]) > HealthWindowSize
    /\ monitor.counters[Primary].failed = 2
    /\ RecentFailures(monitor.history[Primary]) = 1

\* The worst of a set of statuses, Unknown counting only when nothing else is there.
WorstOf(statuses) ==
    IF UNHEALTHY \in statuses THEN UNHEALTHY
    ELSE IF DEGRADED \in statuses THEN DEGRADED
    ELSE IF HEALTHY \in statuses THEN HEALTHY
    ELSE UNKNOWN

\* The names that are built in or have recorded requests.
ReportedNames == BuiltInNames \cup {p \in HealthNames : Len(monitor.recorded[p]) > 0}

\* C29: the overall status of a report is the worst status among the providers
\* that are built in or have recorded requests (Unhealthy over Degraded over
\* Healthy, Unknown only when all are Unknown); in particular an Unhealthy
\* provider under a name that is not built in makes the report Unhealthy.
C29_OverallIsWorstOfAll ==
    lastResp.kind = "report"
    => lastResp.result = WorstOf({GetProviderMetrics(monitor, p).status : p \in ReportedNames})

\* The same for the three built-in names alone.
OverallIsWorstOfBuiltIn ==
    lastResp.kind = "report"
    => lastResp.result = WorstOf({GetProviderMetrics(monitor, p).status : p \in BuiltInNames})

\* No record_request of p is between its append and its last counter update.
NoRecordUnderWay(p) ==
    \A t \in Tasks :
        ~(/\ tasks[t].kind = "record"
          /\ tasks[t].provider = p
          /\ tasks[t].pc \in {"append", "total", "outcome"})

\* How many of the outcomes in log are successes (TRUE) or failures (FALSE).
CountOf(log, success) == Cardinality({i \in 1 .. Len(log) : log[i] = success})

\* C30: for every interleaving of record calls and metric reads by several
\* threads, every snapshot a read returns has total == successes + failures;
\* whenever no record call is under way the cumulative counters are exactly the
\* numbers of calls, of successes and of failures recorded since the last
\* reset (nothing is lost, N calls give a total of N); and no step other than a
\* reset lowers a cumulative counter.
C30_ConsistentSnapshotsNothingLost ==
    /\ [](/\ (lastResp.kind = "metrics" /\ lastResp.task \in Tasks)
             => lastResp.snap[1] = lastResp.snap[2] + lastResp.snap[3]
          /\ \A p \in HealthNames :
                /\ monitor.counters[p].total <= Len(monitor.recorded[p])
                /\ NoRecordUnderWay(p)
                   => /\ monitor.counters[p].total = Len(monitor.recorded[p])
                      /\ monitor.counters[p].success = CountOf(monitor.recorded[p], TRUE)
                      /\ monitor.counters[p].failed = CountOf(monitor.recorded[p], FALSE))
    /\ [][lastResp'.kind # "reset"
          => \A p \in HealthNames :
                /\ monitor'.counters[p].total >= monitor.counters[p].total
                /\ monitor'.counters[p].success >= monitor.counters[p].success
                /\ monitor'.counters[p].failed >= monitor.counters[p].failed]_vars

\* A read returned a snapshot of two recorded requests, one of each outcome,
\* while another thread's record call waits for the lock.
C30_Witness ==
    /\ lastResp.kind = "metrics"
    /\ lastResp.task \in Tasks
    /\ lastResp.snap = <<2, 1, 1>>
    /\ \E u \in Tasks : tasks[u].kind = "record" /\ tasks[u].pc = "lock_wait"

\* Task t takes a step of a fetch with use_cache = false: it starts, is
\* granted its slot, or its call returns.
UncachedFetchStep(t) ==
    \/ /\ tasks[t].pc = "idle"
       /\ lastResp'.kind = "fetch" /\ lastResp'.task = t /\ ~lastResp'.use_cache
       /\ lstats'.total_requests = lstats.total_requests + 1
    \/ /\ tasks'[t] # tasks[t]
       /\ tasks'[t].kind = "fetch" /\ ~tasks'[t].use_cache
    \/ /\ tasks'[t] # tasks[t]
       /\ tasks[t].kind = "fetch" /\ ~tasks[t].use_cache

\* C31: a fetch with use_cache = false never reads the cache and never writes
\* it: none of its steps changes the cache or counts a hit or a miss, it is
\* never answered from the cache, and with a fresh entry present it still goes
\* on to the mode check, the breaker and the gate; and whenever the cache of a
\* provider changes, a fetch of that provider with use_cache = true has just
\* ended with a success response whose data is what was written.
C31_UncachedFetchLeavesCacheAlone ==
    [][/\ \A t \in Tasks :
             UncachedFetchStep(t)
             => /\ cache' = cache
                /\ lstats'.cache_hits = lstats.cache_hits
                /\ lstats'.cache_misses = lstats.cache_misses
                /\ lastResp'.task = t => lastResp'.result \notin {"hit", "raised"}
                /\ (tasks[t].pc = "idle" /\ mode = LIVE)
                   => \/ tasks'[t].pc \in {"call", "wait_sem"}
                      \/ lastResp'.result \in {"circuit_open", "unknown"}
       /\ \A p \in Providers :
             cache'[p] # cache[p]
             => \E t \in Tasks :
                   /\ FetchEnds(t, p)
                   /\ tasks[t].use_cache
                   /\ lastResp'.result = "ok"
                   /\ cache'[p].data = lastResp'.data]_vars

\* A fetch with use_cache = false has returned the second payload from the
\* transport while the cache still holds a fresh entry with the first.
C31_Witness ==
    /\ lastResp.kind = "fetch"
    /\ ~lastResp.use_cache
    /\ lastResp.result = "ok"
    /\ lastResp.data = "p2"
    /\ FreshEntry(lastResp.provider)
    /\ cache[lastResp.provider].data = "p1"

\* Task t is inside a scope it entered on a semaphore that set_limit has since replaced.
OnOldGate(t) ==
    /\ tasks[t].pc # "idle"
    /\ tasks[t].kind \in {"scoped", "fetch"}
    /\ tasks[t].sem < Len(sems[tasks[t].provider])

\* C32: a change of a provider's limit leaves the semaphores that exist, and
\* the tasks waiting on or holding them, as they are; a task stays on the
\* semaphore it started on until it leaves its scope, is granted its slot by
\* that semaphore and releases to it, and no step of a task on a replaced
\* semaphore changes any other semaphore; and a task waiting on a replaced
\* semaphore does not wait forever.
C32_OldGateDrains ==
    /\ [][/\ \A p \in Providers :
                /\ Len(sems'[p]) >= Len(sems[p])
                /\ Len(sems'[p]) > Len(sems[p])
                   => /\ SubSeq(sems'[p], 1, Len(sems[p])) = sems[p]
                      /\ tasks' = tasks
                      /\ qstats' = qstats
          /\ \A t \in Tasks :
                LET p == tasks[t].provider
                    g == tasks[t].sem
                IN  /\ (tasks[t].pc # "idle" /\ tasks'[t].pc # "idle")
                       => tasks'[t].sem = g /\ tasks'[t].provider = p
                    /\ (OnOldGate(t) /\ tasks'[t] # tasks[t])
                       => /\ \A q \in Providers : \A h \in 1 .. Len(sems[q]) :
                                (q # p \/ h # g) => sems'[q][h] = sems[q][h]
                          /\ sems'[p][g] =
                                CASE tasks[t].pc = "wait_sem" /\ tasks'[t].pc = "call"
                                       -> sems[p][g] - 1
                                  [] tasks[t].pc # "wait_sem" /\ tasks'[t].pc = "idle"
                                       -> sems[p][g] + 1
                                  [] OTHER -> sems[p][g]]_vars
    /\ \A t \in Tasks :
          (OnOldGate(t) /\ tasks[t].pc = "wait_sem") ~> (tasks[t].pc # "wait_sem")

\* The limit was changed while one task held the only slot of the old
\* semaphore and another waited for it: the waiter still waits on the old one
\* although every slot of the new one is free.
C32_Witness ==
    /\ Len(sems[Secondary]) = 2
    /\ sems[Secondary][2] = limits[Secondary]
    /\ \E t, u \in Tasks :
          /\ tasks[t].pc = "wait_sem" /\ tasks[t].sem = 1 /\ tasks[t].provider = Secondary
          /\ tasks[u].pc = "call" /\ tasks[u].sem = 1 /\ tasks[u].provider = Secondary

\* C33: a fetch ends in one of two raised errors, ReadOnlyError ("read_only")
\* and CircuitBreakerError ("circuit_open"), or in a returned response (a hit,
\* a success, a failure, an unknown provider); nothing else is raised to the
\* caller, a failed cache read included.
C33_OnlyTwoErrorsRaised ==
    lastResp.kind = "fetch"
    => lastResp.result \in {"hit", "ok", "fail", "unknown", "read_only", "circuit_open"}

\* How many execute calls are asleep between two attempts.
Asleep == Cardinality({t \in Tasks : tasks[t].kind = "execute" /\ tasks[t].pc = "backoff"})

\* No execute call is running.
NoExecuteRunning == \A t \in Tasks : tasks[t].kind # "execute"

StillOpen(b, t) == b.created /\ b.state = OPEN /\ t - b.last_failure_time < RecoveryTimeout

\* C35: no transport call of a fetch starts while its provider's breaker is
\* Open: when a fetch enters its call, at once or after waiting for a slot,
\* the breaker is not Open.
C35_NoCallWhileOpen ==
    [][\A t \in Tasks :
          (/\ tasks'[t].kind = "fetch"
           /\ tasks'[t].pc = "call"
           /\ tasks[t].pc \in {"idle", "wait_sem"})
          => ~StillOpen(breakers'[tasks'[t].provider], now')]_vars

\* The outcomes recorded since a recovered breaker closed, once the failure being
\* recorded is added: the successes recorded since (consecutive_successes counts
\* them and the half_open_max_requests probes that closed it) and that failure.
SinceClosed(b) ==
    [n |-> b.consecutive_successes - HalfOpenMaxRequests + 1, failures |-> 1]

\* C36: the first failure recorded after a breaker closed out of Half-Open re-opens
\* it only if the outcomes recorded since it closed alone number at least
\* min_requests and have an error rate of at least error_threshold; failures
\* recorded before the recovery do not count.
C36_RecoveryForgetsOldFailures ==
    [][\A p \in Providers :
          (/\ breakers[p].recovered
           /\ breakers[p].state = CLOSED
           /\ lastOp' = Op("record_failure", p, TRUE)
           /\ breakers'[p].state = OPEN)
          => LET o == SinceClosed(breakers[p])
             IN  /\ o.n >= MinRequests
                 /\ RateAtLeastThreshold(<<o.failures, o.n>>)]_vars

\* C37: while a breaker is Open, a recorded success leaves it Open with its recovery
\* clock untouched, a recorded failure leaves it Open and sets the clock to the time
\* of that failure, nothing but a recorded failure or a reset moves the clock, and
\* the breaker becomes Half-Open only in a query made at least recovery_timeout
\* after the most recent recorded failure.
C37_RecordingWhileOpenKeepsOpen ==
    [][\A p \in Providers :
          LET b == breakers[p]
              b2 == breakers'[p]
          IN  b.state = OPEN =>
                /\ lastOp' = Op("record_success", p, TRUE) =>
                      /\ b2.state = OPEN
                      /\ b2.last_failure_time = b.last_failure_time
                /\ lastOp' = Op("record_failure", p, TRUE) =>
                      /\ b2.state = OPEN
                      /\ b2.last_failure_time = now'
                /\ b2.last_failure_time # b.last_failure_time =>
                      /\ lastOp'.op \in {"record_failure", "reset", "reset_all"}
                /\ b2.state = HALF_OPEN =>
                      /\ lastOp'.op \in QueryOps
                      /\ lastOp'.p = p
                      /\ now - b.last_failure_time >= RecoveryTimeout]_vars

\* A failure recorded on a breaker that was already Open: the window before it ended
\* in a failure and had reached the threshold, and no recovery timeout can have
\* passed yet; the clock now shows the time of this failure.
C37_Witness ==
    LET b == breakers[Primary]
        n == Len(b.requests)
    IN  /\ b.state = OPEN
        /\ lastOp = Op("record_failure", Primary, TRUE)
        /\ now - 1 < RecoveryTimeout
        /\ n < WindowSize
        /\ n - 1 >= MinRequests
        /\ ~b.requests[n - 1]
        /\ RateAtLeastThreshold(CalculateErrorRate(SubSeq(b.requests, 1, n - 1)))
        /\ b.last_failure_time = now

\* The breaker of p is not Closed, no further failure will be recorded, the
\* recovery timeout of an Open breaker has passed, and at least
\* half_open_max_requests fetches are still to arrive.
Recoverable(p) ==
    /\ breakers[p].state # CLOSED
    /\ ~FailingPhase
    /\ breakers[p].state = OPEN => now - breakers[p].last_failure_time >= RecoveryTimeout
    /\ RemainingFetches >= HalfOpenMaxRequests

\* C38: once no more failures are recorded on a provider, the recovery timeout has
\* passed and uncached fetches for it keep arriving, its breaker, Open or Half-Open,
\* eventually becomes Closed, and a Closed breaker stays Closed from then on.
C38_BreakerEventuallyCloses ==
    /\ Recoverable(Secondary) ~> breakers[Secondary].state = CLOSED
    /\ [][(~FailingPhase /\ breakers[Secondary].state = CLOSED)
             => breakers'[Secondary].state = CLOSED]_vars

\* A fetch's recorded success has just closed a breaker that was Open, after the
\* last failure was recorded.
C38_Witness ==
    /\ ~FailingPhase
    /\ breakers[Secondary].state = CLOSED
    /\ breakers[Secondary].recovered
    /\ lastOp = Op("record_success", Secondary, TRUE)
    /\ lastResp.kind = "fetch"
    /\ lastResp.result = "ok"

\* C39: fetch writes a payload to the cache only when the upstream call truly
\* succeeded: a 2xx response whose body normalizes to the error sentinel is not
\* returned as a success, is not cached, and is never served from the cache.
C39_ErrorEnvelopeNotCached ==
    /\ \A p \in Providers : cache[p].present => cache[p].data # Normalize(ErrorEnvelope.body)
    /\ lastResp.result \in {"ok", "hit"} => lastResp.data # Normalize(ErrorEnvelope.body)

\* No fetch is under way.
AllCompleted == \A t \in Tasks : tasks[t].pc = "idle"

\* The slots of the g-th semaphore of p: set_limit is called with one more each time.
SlotsOf(p, g) == InitialLimit(p) + g - 1

\* C40: when every transport call returns and every runnable task is run, every
\* fetch that was started completes, in particular none waits for a gate slot for
\* ever: again and again no fetch is under way, which a fetch that never
\* completes would prevent; and whenever no fetch is under way every provider's
\* active count is 0 and every slot of each of its semaphores is free.
C40_FetchesCompleteGatesEmpty ==
    /\ []<>AllCompleted
    /\ [](AllCompleted =>
             \A p \in Providers :
                 /\ qstats[p].active_requests = 0
                 /\ \A g \in 1 .. Len(sems[p]) : sems[p][g] = SlotsOf(p, g))

\* Every fetch of the run has completed, more of them went through the gate of the
\* second provider than it had slots at the start, and its limit was raised on the way.
C40_Witness ==
    /\ AllCompleted
    /\ lstats.total_requests = FetchesToFinish
    /\ qstats[Secondary].total_requests > InitialLimit(Secondary)
    /\ qstats[Primary].total_requests > 0
    /\ Len(sems[Secondary]) = 2
    /\ lastResp.kind = "fetch"

====
